---- MODULE Spec2Model ----
(***************************************************************************)
(* epro-memory: the LanceDB-backed memory store (MemoryDB, db.ts).         *)
(*                                                                         *)
(* The store is one MemoryDB instance over one file-backed table.  Every   *)
(* public method is an async function: it runs synchronously up to an      *)
(* await, and other calls run while it is suspended.  A call is modelled   *)
(* as a process whose pc names the await it is suspended at; one step of   *)
(* the model is the completion of that await (the I/O takes effect on the  *)
(* table) followed by the synchronous code up to the next await.           *)
(***************************************************************************)
EXTENDS Integers, Sequences, FiniteSets, TLC

(***************************************************************************)
(* Bounds of the model.                                                    *)
(***************************************************************************)
NumCalls == 3        \* calls issued on the instance
MaxTime == 2         \* largest value Date.now() returns
MaxAddFailures == 2  \* table.add() calls that throw
MaxStores == 2       \* store() calls that reach randomUUID()
VectorDim == 2       \* the configured dimension (constructor argument)
MaxSearches == 1     \* search() calls issued in the recall scenario

Procs == 1..NumCalls

(***************************************************************************)
(* Strings.  TLC treats a string as atomic, so Chars gives the characters  *)
(* of every string that reaches a validator.                               *)
(***************************************************************************)
UuidChars(c) ==
    [i \in 1..36 |-> IF i \in {9, 14, 19, 24} THEN "-"
                     ELSE IF i = 15 THEN "4"
                     ELSE IF i = 20 THEN "a"
                     ELSE c]

OldId == "00000000-0000-4000-a000-000000000000"
NewId == "11111111-1111-4111-a111-111111111111"
NewId2 == "22222222-2222-4222-a222-222222222222"
NewId3 == "33333333-3333-4333-a333-333333333333"
NewId4 == "44444444-4444-4444-a444-444444444444"
InjectionId == "'; DROP TABLE agent_memories; --"
SchemaId == "__schema__"
OtherId == "aaaaaaaa-bbbb-cccc-dddd-eeeeeeeeeeee"

Chars ==
    [s \in {OldId, NewId, NewId2, NewId3, NewId4, InjectionId, SchemaId,
            OtherId} |->
        CASE s = OldId -> UuidChars("0")
          [] s = NewId -> UuidChars("1")
          [] s = NewId2 -> UuidChars("2")
          [] s = NewId3 -> UuidChars("3")
          [] s = NewId4 -> UuidChars("4")
          [] s = OtherId ->
               << "a","a","a","a","a","a","a","a","-","b","b","b","b","-",
                  "c","c","c","c","-","d","d","d","d","-",
                  "e","e","e","e","e","e","e","e","e","e","e","e" >>
          [] s = SchemaId ->
               << "_","_","s","c","h","e","m","a","_","_" >>
          [] s = InjectionId ->
               << "'",";"," ","D","R","O","P"," ","T","A","B","L","E"," ",
                  "a","g","e","n","t","_","m","e","m","o","r","i","e","s",
                  ";"," ","-","-" >>]

HexDigits ==
    {"0","1","2","3","4","5","6","7","8","9",
     "a","b","c","d","e","f","A","B","C","D","E","F"}

\* UUID_RE = /^[0-9a-f]{8}-[0-9a-f]{4}-[0-9a-f]{4}-[0-9a-f]{4}-[0-9a-f]{12}$/i
UUID_RE(value) ==
    LET c == Chars[value]
    IN /\ Len(c) = 36
       /\ \A i \in 1..36 :
            IF i \in {9, 14, 19, 24} THEN c[i] = "-" ELSE c[i] \in HexDigits

MEMORY_CATEGORIES ==
    {"profile", "preferences", "entities", "events", "cases", "patterns"}

BadCategory == "profile' OR '1'='1"

VALID_CATEGORIES(value) == value \in MEMORY_CATEGORIES

(***************************************************************************)
(* Rows.  A vector is a tuple of numbers; only its length matters here.    *)
(***************************************************************************)
FieldNames ==
    {"id", "category", "abstract", "overview", "content", "vector",
     "source_session", "active_count", "created_at", "updated_at"}

Vec(n) == [i \in 1..n |-> 0]

\* rowToEntry copies the ten schema fields of a row.
rowToEntry(row) == [f \in FieldNames |-> row[f]]

\* The placeholder row doInit creates the table with.
SchemaRow ==
    [id |-> SchemaId, category |-> "patterns", abstract |-> "",
     overview |-> "", content |-> "", vector |-> Vec(VectorDim),
     source_session |-> "", active_count |-> 0,
     created_at |-> 0, updated_at |-> 0]

\* A row left in the table by an earlier run of the program, with
\* vectors of dimension d.
OldRow(d) ==
    [id |-> OldId, category |-> "events", abstract |-> "old",
     overview |-> "", content |-> "old", vector |-> Vec(d),
     source_session |-> "s0", active_count |-> 0,
     created_at |-> 1, updated_at |-> 1]

(***************************************************************************)
(* State.                                                                  *)
(***************************************************************************)
VARIABLES
    tableExists,   \* the table agent_memories exists in the database
    rows,          \* its rows, in insertion order
    dbRef,         \* this.db is set
    tableRef,      \* this.table is set
    initPromise,   \* this.initPromise: "null" or "set"
    initPc,        \* where doInit is: "none", an await of doInit, "ok", "failed"
    initBy,        \* the call whose ensureInit started doInit (0: none)
    writeLock,     \* this.writeLock: the promise made by this call (0: the initial one)
    resolved,      \* the write-lock promises that are resolved
    now,           \* the last value Date.now() returned
    uuidsDrawn,    \* how many times randomUUID() was called
    addFailures,   \* how many table.add() calls have thrown
    sent,          \* the filter predicates sent to the table so far
    everStored,    \* ids of the rows ever persisted by store() or an earlier run
    files,         \* the checkpoint directory: the content of each session's file
    history,       \* what the batches did, in order: extractions, calls of
                   \* processCandidate, candidates counted; and the crashes
    calls          \* the calls: operation, arguments, pc, locals, result

vars ==
    << tableExists, rows, dbRef, tableRef, initPromise, initPc, initBy,
       writeLock, resolved, now, uuidsDrawn, addFailures, sent, everStored,
       files, history, calls >>

dbVars == << tableExists, rows >>
initVars == << dbRef, tableRef, initPromise, initPc, initBy >>
lockVars == << writeLock, resolved >>
diskVars == << files, history >>

\* The sessions, and a checkpoint directory without files.
SessionKeys == {"s1", "s2"}
NoFile == [t |-> "absent"]
NoFiles == [k \in SessionKeys |-> NoFile]

\* An entry of the history: call p did this for candidate i of the session.
Event(kind, session, i, p) ==
    [kind |-> kind, session |-> session, i |-> i, p |-> p]

Idle ==
    [op |-> "none", pc |-> "idle", id |-> "", category |-> "",
     fields |-> << >>, entry |-> << >>, prev |-> 0,
     clean |-> << >>, updated |-> << >>, result |-> << >>, err |-> "",
     io |-> {}, args |-> << >>, results |-> << >>, similar |-> << >>,
     data |-> << >>, llmCalls |-> 0,
     caller |-> "", stage |-> "", candidate |-> << >>, target |-> << >>,
     dedupCalls |-> 0,
     batch |-> "", candidates |-> << >>, i |-> 0,
     stats |-> [created |-> 0, merged |-> 0, skipped |-> 0],
     extractCalls |-> 0, checkpoint |-> << >>, session |-> "",
     outcomes |-> << >>, verdict |-> << >>, pending |-> << >>]

Init ==
    /\ \E t \in { << FALSE, << >> >>,
                  << TRUE, << >> >>,
                  << TRUE, << OldRow(VectorDim) >> >>,
                  << TRUE, << OldRow(VectorDim + 1) >> >> } :
          /\ tableExists = t[1]
          /\ rows = t[2]
          /\ everStored = { t[2][i].id : i \in 1..Len(t[2]) }
    /\ dbRef = FALSE
    /\ tableRef = FALSE
    /\ initPromise = "null"
    /\ initPc = "none"
    /\ initBy = 0
    /\ writeLock = 0
    /\ resolved = {0}
    /\ now = 1
    /\ uuidsDrawn = 0
    /\ addFailures = 0
    /\ sent = {}
    /\ calls = [p \in Procs |-> Idle]
    /\ files = NoFiles
    /\ history = << >>

(***************************************************************************)
(* The table: filter predicates, queries, deletes.                         *)
(***************************************************************************)

\* The predicate `${col} = '${val}'`.
Where(col, val) == [col |-> col, val |-> val]

Matching_all(pred) == rows
Matching(pred) == SelectSeq(rows, LAMBDA r : r[pred.col] = pred.val)

\* table.query().where(pred).limit(n).toArray()
Query(pred, n) ==
    LET m == Matching(pred)
    IN IF Len(m) <= n THEN m ELSE SubSeq(m, 1, n)

\* table.delete(pred)
Delete(pred) == SelectSeq(rows, LAMBDA r : r[pred.col] # pred.val)

FIND_LIMIT == 100

(***************************************************************************)
(* Arguments of the calls.                                                 *)
(***************************************************************************)
Ids == {OldId, NewId, InjectionId}

Entries ==
    { [category |-> "events", abstract |-> "a", overview |-> "",
       content |-> "a", vector |-> Vec(d), source_session |-> "s1"] :
      d \in {VectorDim, VectorDim + 1} }
    \cup { [category |-> BadCategory, abstract |-> "a", overview |-> "",
            content |-> "a", vector |-> Vec(VectorDim),
            source_session |-> "s1"] }

FieldChoices ==
    { [abstract |-> "m", overview |-> "m", content |-> "m",
       vector |-> Vec(VectorDim)],
      [abstract |-> "changed", id |-> OtherId, created_at |-> 0,
       source_session |-> "hijacked", category |-> "cases",
       active_count |-> 7, updated_at |-> 0] }

CallInputs ==
    { [Idle EXCEPT !.op = "store", !.entry = e] : e \in Entries }
    \cup { [Idle EXCEPT !.op = o, !.id = i] :
           o \in {"getById", "incrementActiveCount"}, i \in Ids }
    \cup { [Idle EXCEPT !.op = "findByCategory", !.category = c] :
           c \in {"events", BadCategory} }
    \cup { [Idle EXCEPT !.op = "update", !.id = i, !.fields = f] :
           i \in Ids, f \in FieldChoices }

IsWrite(c) == c.op \in {"update", "incrementActiveCount"}

\* randomUUID(): a value never returned before.
UuidPool == << NewId, NewId2, NewId3 >>
randomUUID_repeat == UuidPool[1]
randomUUID == UuidPool[uuidsDrawn + 1]

Finish(c, err, result) ==
    [c EXCEPT !.pc = "done", !.err = err, !.result = result]

\* The call has performed an I/O operation of this kind.
Did(c, kind) == [c EXCEPT !.io = @ \cup {kind}]

(***************************************************************************)
(* ensureInit and doInit.                                                  *)
(***************************************************************************)

\* The I/O of doInit is performed by the call that started it.
InitIO(kind) == [calls EXCEPT ![initBy].io = @ \cup {kind}]

\* this.db = await lancedb.connect(this.dbPath)
InitConnect ==
    /\ initPc = "connect"
    /\ dbRef' = TRUE
    /\ initPc' = "tableNames"
    /\ calls' = InitIO("connect")
    /\ UNCHANGED << dbVars, tableRef, initPromise, initBy, lockVars, now,
                    uuidsDrawn, addFailures, sent, everStored >>
    /\ UNCHANGED diskVars

\* const tables = await this.db.tableNames()
InitTableNames ==
    /\ initPc = "tableNames"
    /\ initPc' = IF tableExists THEN "openTable" ELSE "createTable"
    /\ calls' = InitIO("tableNames")
    /\ UNCHANGED << dbVars, dbRef, tableRef, initPromise, initBy, lockVars,
                    now, uuidsDrawn, addFailures, sent, everStored >>
    /\ UNCHANGED diskVars

\* this.table = await this.db.openTable(TABLE_NAME)
InitOpenTable ==
    /\ initPc = "openTable"
    /\ tableRef' = TRUE
    /\ initPc' = "sample"
    /\ calls' = InitIO("openTable")
    /\ UNCHANGED << dbVars, dbRef, initPromise, initBy, lockVars, now,
                    uuidsDrawn, addFailures, sent, everStored >>
    /\ UNCHANGED diskVars

\* The dimension check on the first row of an existing table.
DimensionsMatch(sample) ==
    Len(sample) > 0 => Len(sample[1].vector) = VectorDim

\* const sample = await this.table.query().limit(1).toArray(), the check,
\* and the catch handler of ensureInit when the check throws.
InitSample ==
    /\ initPc = "sample"
    /\ LET sample == IF Len(rows) <= 1 THEN rows ELSE SubSeq(rows, 1, 1)
       IN IF DimensionsMatch(sample)
          THEN /\ initPc' = "ok"
               /\ UNCHANGED initPromise
          ELSE /\ initPc' = "failed"
               /\ initPromise' = "null"
    /\ calls' = InitIO("query")
    /\ UNCHANGED << dbVars, dbRef, tableRef, initBy, lockVars, now,
                    uuidsDrawn, addFailures, sent, everStored >>
    /\ UNCHANGED diskVars

\* this.table = await this.db.createTable(TABLE_NAME, [schema row])
InitCreateTable ==
    /\ initPc = "createTable"
    /\ tableExists' = TRUE
    /\ rows' = << SchemaRow >>
    /\ tableRef' = TRUE
    /\ initPc' = "deleteSchema"
    /\ calls' = InitIO("createTable")
    /\ UNCHANGED << dbRef, initPromise, initBy, lockVars, now, uuidsDrawn,
                    addFailures, sent, everStored >>
    /\ UNCHANGED diskVars

\* await this.table.delete('id = "__schema__"')
InitDeleteSchema ==
    /\ initPc = "deleteSchema"
    /\ rows' = Delete(Where("id", SchemaId))
    /\ sent' = sent \cup {Where("id", SchemaId)}
    /\ initPc' = "ok"
    /\ calls' = InitIO("delete")
    /\ UNCHANGED << tableExists, dbRef, tableRef, initPromise, initBy,
                    lockVars, now, uuidsDrawn, addFailures, everStored >>
    /\ UNCHANGED diskVars

(***************************************************************************)
(* store                                                                   *)
(***************************************************************************)

\* Date.now() returns t: the clock never runs backwards.
Times == now..MaxTime

\* entry.vector.length !== this.vectorDim throws.
DimensionOk_nocheck(entry) == TRUE
DimensionOk(entry) == Len(entry.vector) = VectorDim

\* The row store() builds: the entry, a fresh id, active_count 0, both
\* timestamps now.
NewRow(entry, id, t) ==
    [f \in FieldNames |->
        CASE f = "id" -> id
          [] f = "active_count" -> 0
          [] f = "created_at" -> t
          [] f = "updated_at" -> t
          [] OTHER -> entry[f]]

\* store() after ensureInit, for the call c of p: the dimension check,
\* then the row is built and table.add is awaited.
StoreStart(p, c) ==
    /\ c.op = "store"
    /\ IF ~DimensionOk(c.entry)
       THEN /\ calls' = [calls EXCEPT ![p] =
                           Finish(c, "DimensionMismatch", << >>)]
            /\ UNCHANGED << now, uuidsDrawn >>
       ELSE /\ uuidsDrawn < MaxStores
            /\ \E t \in Times :
                 /\ now' = t
                 /\ calls' = [calls EXCEPT ![p] =
                       [c EXCEPT !.pc = "add",
                                 !.updated = NewRow(c.entry, randomUUID, t)]]
            /\ uuidsDrawn' = uuidsDrawn + 1
    /\ UNCHANGED writeLock

\* await this.table.add([row]); return row.  The add may throw.
StoreAdd(p) ==
    /\ calls[p].pc = "add"
    /\ calls[p].op = "store"
    /\ \/ /\ rows' = Append(rows, calls[p].updated)
          /\ everStored' = everStored \cup {calls[p].updated.id}
          /\ calls' = [calls EXCEPT ![p] =
                         Finish(Did(@, "add"), "", << @.updated >>)]
          /\ UNCHANGED addFailures
       \/ /\ addFailures < MaxAddFailures
          /\ addFailures' = addFailures + 1
          /\ calls' = [calls EXCEPT ![p] =
                         Finish(Did(@, "add"), "AddFailed", << >>)]
          /\ UNCHANGED << rows, everStored >>
    /\ UNCHANGED << tableExists, initVars, lockVars, now, uuidsDrawn, sent >>
    /\ UNCHANGED diskVars

(***************************************************************************)
(* getById, findByCategory                                                 *)
(***************************************************************************)

\* assertUuid(value), assertCategory(value): TRUE when they do not throw.
assertUuid(value) == UUID_RE(value)
assertCategory(value) == VALID_CATEGORIES(value)

\* getById / findByCategory after ensureInit: the argument is validated,
\* then the query is awaited.
ReadStart(p, c) ==
    /\ c.op \in {"getById", "findByCategory"}
    /\ calls' = [calls EXCEPT ![p] =
          IF c.op = "getById"
          THEN IF assertUuid(c.id) THEN [c EXCEPT !.pc = "query"]
               ELSE Finish(c, "InvalidUUID", << >>)
          ELSE IF assertCategory(c.category) THEN [c EXCEPT !.pc = "query"]
               ELSE Finish(c, "InvalidCategory", << >>)]
    /\ UNCHANGED << writeLock, now, uuidsDrawn >>

\* The predicate and the limit of the query a read sends.
ReadPredicate(c) ==
    IF c.op = "getById" THEN Where("id", c.id)
    ELSE Where("category", c.category)

ReadLimit(c) == IF c.op = "getById" THEN 1 ELSE FIND_LIMIT

\* The query of a read completes: its rows are the result.
ReadQuery(p) ==
    /\ calls[p].pc = "query"
    /\ calls[p].op \in {"getById", "findByCategory"}
    /\ sent' = sent \cup {ReadPredicate(calls[p])}
    /\ calls' = [calls EXCEPT ![p] =
          Finish(Did(@, "query"), "",
                 Query(ReadPredicate(@), ReadLimit(@)))]
    /\ UNCHANGED << dbVars, initVars, lockVars, now, uuidsDrawn, addFailures,
                    everStored >>
    /\ UNCHANGED diskVars

(***************************************************************************)
(* search                                                                  *)
(*                                                                         *)
(* A score is a whole number of ScoreUnit-ths, so that 1 / (1 + distance)  *)
(* is exact for the distances of the model.  A unit of time is one         *)
(* half-life of the decay.                                                 *)
(***************************************************************************)
ScoreUnit == 100000

\* The instance is built with decay enabled; skipDecay turns it off for
\* one call.  activeWeight is 0.1, the default.
decayConfig == [enabled |-> TRUE, halfLifeDays |-> 1, activeWeightPct |-> 10]

\* The vector at k on the first axis.
VecAt(k) == [i \in 1..VectorDim |-> IF i = 1 THEN k ELSE 0]

\* _distance: the squared L2 distance of two vectors of the same length.
RECURSIVE SumSquares(_, _, _)
SumSquares(a, b, n) ==
    IF n = 0 THEN 0
    ELSE (a[n] - b[n]) * (a[n] - b[n]) + SumSquares(a, b, n - 1)

Distance(a, b) == SumSquares(a, b, Len(a))

\* Math.log(1 + activeCount), in hundredths.
LogPct(activeCount) ==
    CASE activeCount = 0 -> 0
      [] activeCount = 1 -> 69
      [] activeCount = 2 -> 110
      [] activeCount = 3 -> 139
      [] activeCount = 4 -> 161
      [] activeCount = 5 -> 179
      [] activeCount = 6 -> 195
      [] activeCount = 7 -> 208
      [] OTHER -> 220

\* vectorScore * 2^(-age / halfLife) * (1 + activeWeight * log(1 + n))
computeDecayScore(vectorScore, createdAt, activeCount, t) ==
    IF ~decayConfig.enabled THEN vectorScore
    ELSE LET age == (t - createdAt) \div decayConfig.halfLifeDays
             activeBoost ==
                 1000 + (decayConfig.activeWeightPct * LogPct(activeCount)) \div 10
         IN (vectorScore * activeBoost) \div (1000 * 2 ^ age)

\* !skipDecay && this.decayConfig.enabled
UseDecay(args) == ~args.skipDecay /\ decayConfig.enabled

\* useDecay ? Math.max(limit * 3, 20) : limit
FetchLimit(args) ==
    IF UseDecay(args)
    THEN (IF args.limit * 3 > 20 THEN args.limit * 3 ELSE 20)
    ELSE args.limit

\* The positions of the rows the query ranges over: all of them, or those
\* of the category when `if (categoryFilter)` adds the where clause.
Candidates(args) ==
    { i \in 1..Len(rows) :
        args.categoryFilter # "" => rows[i].category = args.categoryFilter }

\* vectorSearch(vector).limit(n).where(..).toArray(): the n nearest of the
\* candidates, nearest first; rows at the same distance come in any order.
VectorSearch(args) ==
    LET cands == Candidates(args)
        n == IF FetchLimit(args) < Cardinality(cands)
             THEN FetchLimit(args) ELSE Cardinality(cands)
        d(i) == Distance(rows[i].vector, args.vector)
    IN { s \in [1..n -> cands] :
           /\ \A a, b \in 1..n : a < b => s[a] # s[b] /\ d(s[a]) <= d(s[b])
           /\ \A i \in cands :
                 (\A a \in 1..n : s[a] # i) => \A a \in 1..n : d(s[a]) <= d(i) }

\* results.map(...): the entry of each row with its score.
Scored(args, found, t) ==
    [k \in 1..Len(found) |->
        LET row == rows[found[k]]
            vectorScore == ScoreUnit \div (1 + Distance(row.vector, args.vector))
        IN [entry |-> rowToEntry(row),
            score |-> IF UseDecay(args)
                      THEN computeDecayScore(vectorScore, row.created_at,
                                             row.active_count, t)
                      ELSE vectorScore]]

\* .sort((a, b) => b.score - a.score): descending, and stable.
SortByScore_unsorted(s) == s
RECURSIVE SortByScore(_)
SortByScore(s) ==
    IF Len(s) <= 1 THEN s
    ELSE LET front == SortByScore(SubSeq(s, 1, Len(s) - 1))
             x == s[Len(s)]
             k == Cardinality({ i \in 1..Len(front) : front[i].score >= x.score })
         IN SubSeq(front, 1, k) \o << x >> \o SubSeq(front, k + 1, Len(front))

\* .slice(0, end): a negative end counts from the end of the list.
Slice(s, end) ==
    LET e == IF end < 0 THEN (IF Len(s) + end < 0 THEN 0 ELSE Len(s) + end)
             ELSE IF end > Len(s) THEN Len(s) ELSE end
    IN SubSeq(s, 1, e)

\* .sort(..).filter((r) => r.score >= minScore).slice(0, limit)
Ranked(args, scored) ==
    Slice(SelectSeq(SortByScore(scored), LAMBDA r : r.score >= args.minScore),
          args.limit)

\* search() after ensureInit: the category filter, when given, is
\* validated, then the query is awaited.
SearchStart(p, c) ==
    /\ c.op \in {"search", "deduplicate"}
    /\ calls' = [calls EXCEPT ![p] =
          IF c.args.categoryFilter # "" /\ ~assertCategory(c.args.categoryFilter)
          THEN Finish(c, "InvalidCategory", << >>)
          ELSE [c EXCEPT !.pc = "vectorSearch"]]
    /\ UNCHANGED << writeLock, now, uuidsDrawn >>

\* The query completes: its rows are scored, sorted, filtered and cut.
SearchQuery(p) ==
    /\ calls[p].pc = "vectorSearch"
    /\ calls[p].op = "search"
    /\ sent' = IF calls[p].args.categoryFilter = "" THEN sent
               ELSE sent \cup {Where("category", calls[p].args.categoryFilter)}
    /\ \E found \in VectorSearch(calls[p].args),
          t \in (IF UseDecay(calls[p].args) THEN Times ELSE {now}) :
          /\ now' = t
          /\ LET scored == Scored(calls[p].args, found, t)
             IN calls' = [calls EXCEPT ![p] =
                   [Finish(Did(@, "query"), "", Ranked(@.args, scored))
                      EXCEPT !.results = scored]]
    /\ UNCHANGED << dbVars, initVars, lockVars, uuidsDrawn, addFailures,
                    everStored >>
    /\ UNCHANGED diskVars

(***************************************************************************)
(* withWriteLock, update, incrementActiveCount                             *)
(***************************************************************************)

\* `const prev = this.writeLock`: the promise of the call that entered
\* withWriteLock last.
LockPrev_resolved == CHOOSE q \in resolved : TRUE
LockPrev == writeLock

\* `await prev` in withWriteLock: the call goes on when the promise it
\* read from this.writeLock is resolved.
LockFree_nowait(c) == TRUE
LockFree(c) == c.prev \in resolved

\* A withWriteLock that resolves after `await fn()` instead of in finally.
Release_unlessThrown(p) ==
    IF calls[p].pc = "restore" THEN resolved ELSE resolved \cup {p}

\* `finally { resolve() }`: the promise this call put in this.writeLock.
Release(p) == resolved \cup {p}

\* The fields of `fields` update() keeps: all but id, created_at and
\* source_session.
safeFields_all(fields) == DOMAIN fields
safeFields(fields) == DOMAIN fields \ {"id", "created_at", "source_session"}

\* { ...clean, ...safeFields, updated_at: Date.now() }
UpdatedRow(clean, fields, t) ==
    [f \in FieldNames |->
        IF f = "updated_at" THEN t
        ELSE IF f \in safeFields(fields) THEN fields[f]
        ELSE clean[f]]

\* { ...clean, active_count: (clean.active_count || 0) + 1,
\*   updated_at: Date.now() }
IncrementedRow(clean, t) ==
    [clean EXCEPT !.active_count = @ + 1, !.updated_at = t]

\* The row written back on a failed add.
RestoreRow_updated(c) == c.updated
RestoreRow(c) == c.clean

\* update / incrementActiveCount after ensureInit: assertUuid, then
\* withWriteLock up to `await prev`.
WriteStart(p, c) ==
    /\ IsWrite(c)
    /\ IF assertUuid(c.id)
       THEN /\ calls' = [calls EXCEPT ![p] =
                           [c EXCEPT !.pc = "awaitLock", !.prev = LockPrev]]
            /\ writeLock' = p
       ELSE /\ calls' = [calls EXCEPT ![p] = Finish(c, "InvalidUUID", << >>)]
            /\ UNCHANGED writeLock
    /\ UNCHANGED << now, uuidsDrawn >>

\* prev has resolved: fn starts and awaits its query.
WriteAcquire(p) ==
    /\ calls[p].pc = "awaitLock"
    /\ LockFree(calls[p])
    /\ calls' = [calls EXCEPT ![p].pc = "query"]
    /\ UNCHANGED << dbVars, initVars, lockVars, now, uuidsDrawn, addFailures,
                    sent, everStored >>
    /\ UNCHANGED diskVars

\* The query of the existing row completes.  No row: fn returns.  A row:
\* clean and updated are built and the delete is awaited.
WriteQuery(p) ==
    /\ calls[p].pc = "query"
    /\ IsWrite(calls[p])
    /\ sent' = sent \cup {Where("id", calls[p].id)}
    /\ LET existing == Query(Where("id", calls[p].id), 1)
       IN IF Len(existing) = 0
          THEN /\ calls' = [calls EXCEPT ![p] =
                              Finish(Did(@, "query"), "", << >>)]
               /\ resolved' = Release(p)
               /\ UNCHANGED now
          ELSE /\ \E t \in Times :
                    /\ now' = t
                    /\ LET clean == rowToEntry(existing[1])
                       IN calls' = [calls EXCEPT ![p] =
                            [Did(@, "query") EXCEPT
                               !.pc = "delete",
                               !.clean = clean,
                               !.updated =
                                  IF calls[p].op = "update"
                                  THEN UpdatedRow(clean, calls[p].fields, t)
                                  ELSE IncrementedRow(clean, t)]]
               /\ UNCHANGED resolved
    /\ UNCHANGED << dbVars, initVars, writeLock, uuidsDrawn, addFailures,
                    everStored >>
    /\ UNCHANGED diskVars

\* await this.table.delete(`id = '${id}'`)
WriteDelete(p) ==
    /\ calls[p].pc = "delete"
    /\ rows' = Delete(Where("id", calls[p].id))
    /\ sent' = sent \cup {Where("id", calls[p].id)}
    /\ calls' = [calls EXCEPT ![p] = [Did(@, "delete") EXCEPT !.pc = "add"]]
    /\ UNCHANGED << tableExists, initVars, lockVars, now, uuidsDrawn,
                    addFailures, everStored >>
    /\ UNCHANGED diskVars

\* await this.table.add([updated]): it succeeds and fn returns, or it
\* throws and the catch block awaits the add of clean.
WriteAdd(p) ==
    /\ calls[p].pc = "add"
    /\ IsWrite(calls[p])
    /\ \/ /\ rows' = Append(rows, calls[p].updated)
          /\ calls' = [calls EXCEPT ![p] = Finish(Did(@, "add"), "", << >>)]
          /\ resolved' = Release(p)
          /\ UNCHANGED addFailures
       \/ /\ addFailures < MaxAddFailures
          /\ addFailures' = addFailures + 1
          /\ calls' = [calls EXCEPT ![p] =
                         [Did(@, "add") EXCEPT !.pc = "restore"]]
          /\ UNCHANGED << rows, resolved >>
    /\ UNCHANGED << tableExists, initVars, writeLock, now, uuidsDrawn, sent,
                    everStored >>
    /\ UNCHANGED diskVars

\* await this.table.add([clean]); throw err.  When this add throws too,
\* its error is the one that leaves fn.  Either way finally resolves.
WriteRestore(p) ==
    /\ calls[p].pc = "restore"
    /\ \/ /\ rows' = Append(rows, RestoreRow(calls[p]))
          /\ calls' = [calls EXCEPT ![p] = Finish(@, "AddFailed", << >>)]
          /\ UNCHANGED addFailures
       \/ /\ addFailures < MaxAddFailures
          /\ addFailures' = addFailures + 1
          /\ calls' = [calls EXCEPT ![p] = Finish(@, "RestoreFailed", << >>)]
          /\ UNCHANGED rows
    /\ resolved' = Release(p)
    /\ UNCHANGED << tableExists, initVars, writeLock, now, uuidsDrawn, sent,
                    everStored >>
    /\ UNCHANGED diskVars

(***************************************************************************)
(* Calls                                                                   *)
(***************************************************************************)

\* What a method does once `await this.ensureInit()` has returned, up to
\* its next await.
AfterInit(p, c) ==
    \/ StoreStart(p, c)
    \/ ReadStart(p, c)
    \/ WriteStart(p, c)
    \/ SearchStart(p, c)

\* A method is entered with the call record c.  ensureInit runs
\* synchronously: with this.table set it returns and the method goes on;
\* with this.initPromise set the call awaits it; otherwise it starts
\* doInit, which runs up to its first await (lancedb.connect), and the
\* call awaits this.initPromise.
EnsureInit(p, c) ==
    /\ IF tableRef
       THEN /\ AfterInit(p, c)
            /\ UNCHANGED initVars
       ELSE /\ calls' = [calls EXCEPT ![p] = [c EXCEPT !.pc = "awaitInit"]]
            /\ UNCHANGED << writeLock, now, uuidsDrawn >>
            /\ IF initPromise = "set"
               THEN UNCHANGED initVars
               ELSE /\ initPromise' = "set"
                    /\ initPc' = "connect"
                    /\ initBy' = p
                    /\ UNCHANGED << dbRef, tableRef >>
    /\ UNCHANGED << dbVars, resolved, addFailures, sent, everStored >>

\* The call is one of `inputs`.  Calls are issued in the order of their
\* indices.
InvokeOf(p, inputs) ==
    /\ calls[p].pc = "idle"
    /\ \A q \in Procs : q < p => calls[q].pc # "idle"
    /\ \E c \in inputs : EnsureInit(p, c)
    /\ UNCHANGED diskVars

\* Any method with any of the arguments.
Invoke(p) == InvokeOf(p, CallInputs)

\* A call suspended on this.initPromise resumes when doInit has settled:
\* it goes on when doInit returned and throws doInit's error otherwise.
AwaitInit(p) ==
    /\ calls[p].pc = "awaitInit"
    /\ initPc \in {"ok", "failed"}
    /\ IF initPc = "ok"
       THEN AfterInit(p, calls[p])
       ELSE /\ calls' = [calls EXCEPT ![p] =
                           Finish(@, "InitDimensionMismatch", << >>)]
            /\ UNCHANGED << writeLock, now, uuidsDrawn >>
    /\ UNCHANGED << dbVars, initVars, resolved, addFailures, sent,
                    everStored >>
    /\ UNCHANGED diskVars

(***************************************************************************)
(* The specification.                                                      *)
(***************************************************************************)
Next ==
    \/ \E p \in Procs : Invoke(p)
    \/ InitConnect
    \/ InitTableNames
    \/ InitOpenTable
    \/ InitSample
    \/ InitCreateTable
    \/ InitDeleteSchema
    \/ \E p \in Procs : AwaitInit(p)
    \/ \E p \in Procs : StoreAdd(p)
    \/ \E p \in Procs : ReadQuery(p)
    \/ \E p \in Procs : WriteAcquire(p)
    \/ \E p \in Procs : WriteQuery(p)
    \/ \E p \in Procs : WriteDelete(p)
    \/ \E p \in Procs : WriteAdd(p)
    \/ \E p \in Procs : WriteRestore(p)

Spec == Init /\ [][Next]_vars

(***************************************************************************)
(* The write path alone: update and incrementActiveCount calls on an       *)
(* instance whose table holds one record of the configured dimension.      *)
(***************************************************************************)
WriteInputs ==
    { c \in CallInputs :
        \/ c.op = "incrementActiveCount" /\ c.id \in {OldId, NewId}
        \/ c.op = "update" /\ c.id = OldId /\ "id" \in DOMAIN c.fields }

InvokeWrite(p) == InvokeOf(p, WriteInputs)

InitWrites == Init /\ rows = << OldRow(VectorDim) >>

NextWrites ==
    \/ \E p \in Procs : InvokeWrite(p)
    \/ InitConnect
    \/ InitTableNames
    \/ InitOpenTable
    \/ InitSample
    \/ \E p \in Procs : AwaitInit(p)
    \/ \E p \in Procs : WriteAcquire(p)
    \/ \E p \in Procs : WriteQuery(p)
    \/ \E p \in Procs : WriteDelete(p)
    \/ \E p \in Procs : WriteAdd(p)
    \/ \E p \in Procs : WriteRestore(p)

SpecWrites == InitWrites /\ [][NextWrites]_vars

(***************************************************************************)
(* The store path: store() calls, and updates of the first record stored,  *)
(* on any of the initial tables.                                           *)
(***************************************************************************)
StoreInputs ==
    { c \in CallInputs :
        \/ c.op = "store" /\ c.entry.category \in MEMORY_CATEGORIES
        \/ c.op = "update" /\ c.id = NewId /\ "id" \in DOMAIN c.fields }

InvokeStore(p) == InvokeOf(p, StoreInputs)

NextStores ==
    \/ \E p \in Procs : InvokeStore(p)
    \/ InitConnect
    \/ InitTableNames
    \/ InitOpenTable
    \/ InitSample
    \/ InitCreateTable
    \/ InitDeleteSchema
    \/ \E p \in Procs : AwaitInit(p)
    \/ \E p \in Procs : StoreAdd(p)
    \/ \E p \in Procs : WriteAcquire(p)
    \/ \E p \in Procs : WriteQuery(p)
    \/ \E p \in Procs : WriteDelete(p)
    \/ \E p \in Procs : WriteAdd(p)
    \/ \E p \in Procs : WriteRestore(p)

SpecStores == Init /\ [][NextStores]_vars

(***************************************************************************)
(* Writes of an id that has no record: update and incrementActiveCount on  *)
(* an id never stored, beside increments of the record the table holds.    *)
(***************************************************************************)
AbsentInputs ==
    { c \in CallInputs :
        \/ c.op = "incrementActiveCount" /\ c.id \in {OldId, NewId}
        \/ c.op = "update" /\ c.id = NewId /\ "id" \in DOMAIN c.fields }

InvokeAbsent(p) == InvokeOf(p, AbsentInputs)

NextAbsent ==
    \/ \E p \in Procs : InvokeAbsent(p)
    \/ InitConnect
    \/ InitTableNames
    \/ InitOpenTable
    \/ InitSample
    \/ \E p \in Procs : AwaitInit(p)
    \/ \E p \in Procs : WriteAcquire(p)
    \/ \E p \in Procs : WriteQuery(p)
    \/ \E p \in Procs : WriteDelete(p)
    \/ \E p \in Procs : WriteAdd(p)
    \/ \E p \in Procs : WriteRestore(p)

SpecAbsent == InitWrites /\ [][NextAbsent]_vars

(***************************************************************************)
(* Recall: search() calls on a table of four records in two categories.    *)
(* Two of the records are at the same place; the oldest has decayed and    *)
(* one has been recalled twice.                                            *)
(***************************************************************************)
RecallMinScore == 30000
SIMILARITY_THRESHOLD == 70000

SearchRow(id, category, k, created, active) ==
    [id |-> id, category |-> category, abstract |-> "old", overview |-> "",
     content |-> "old", vector |-> VecAt(k), source_session |-> "s0",
     active_count |-> active, created_at |-> created, updated_at |-> 1]

SearchRows ==
    << SearchRow(OldId, "events", 0, 0, 0),
       SearchRow(NewId, "events", 1, 1, 2),
       SearchRow(NewId2, "profile", 0, 1, 0),
       SearchRow(NewId3, "events", 2, 1, 0) >>

SearchArgs ==
    [vector : {VecAt(0), VecAt(1)}, limit : {1, 2},
     minScore : {RecallMinScore, SIMILARITY_THRESHOLD},
     categoryFilter : {"", "events"}, skipDecay : BOOLEAN]
    \cup { [vector |-> VecAt(0), limit |-> 2, minScore |-> RecallMinScore,
            categoryFilter |-> BadCategory, skipDecay |-> FALSE] }

SearchInputs ==
    { [Idle EXCEPT !.op = "search", !.args = a] : a \in SearchArgs }

InvokeSearch(p) == p <= MaxSearches /\ InvokeOf(p, SearchInputs)

InitSearch ==
    /\ tableExists = TRUE
    /\ rows = SearchRows
    /\ everStored = { SearchRows[i].id : i \in 1..Len(SearchRows) }
    /\ dbRef = FALSE
    /\ tableRef = FALSE
    /\ initPromise = "null"
    /\ initPc = "none"
    /\ initBy = 0
    /\ writeLock = 0
    /\ resolved = {0}
    /\ now = 1
    /\ uuidsDrawn = 0
    /\ addFailures = 0
    /\ sent = {}
    /\ calls = [p \in Procs |-> Idle]
    /\ files = NoFiles
    /\ history = << >>

NextSearch ==
    \/ \E p \in Procs : InvokeSearch(p)
    \/ InitConnect
    \/ InitTableNames
    \/ InitOpenTable
    \/ InitSample
    \/ \E p \in Procs : AwaitInit(p)
    \/ \E p \in Procs : SearchQuery(p)

SpecSearch == InitSearch /\ [][NextSearch]_vars

(***************************************************************************)
(* MemoryDeduplicator (deduplicator.ts).                                   *)
(*                                                                         *)
(* A value the arbitration reply holds is a JavaScript value: undefined, a *)
(* string, or a number.  Numbers are kept in halves (n2 is twice the       *)
(* number), so that 1.5 is a value.                                        *)
(***************************************************************************)
MaxDedups == 1
MAX_SIMILAR_FOR_PROMPT == 3
DEDUP_LIMIT == 5
VALID_DECISIONS_any == {"create", "merge", "skip", "invalid"}
VALID_DECISIONS == {"create", "merge", "skip"}

JsUndefined == [t |-> "undefined", s |-> "", n2 |-> 0]
JsString(s) == [t |-> "string", s |-> s, n2 |-> 0]
JsNumber(n2) == [t |-> "number", s |-> "", n2 |-> n2]

\* String.prototype.toLowerCase on the strings of the model.
toLowerCase(s) ==
    CASE s = "MERGE" -> "merge"
      [] s = "Skip" -> "skip"
      [] s = "INVALID" -> "invalid"
      [] OTHER -> s

\* What `await this.llm.completeJson(prompt)` yields: it throws, it
\* returns null, or it returns the object parsed from the reply.
LlmOutcomes ==
    { [kind |-> "throws", decision |-> JsUndefined, match_index |-> JsUndefined],
      [kind |-> "null", decision |-> JsUndefined, match_index |-> JsUndefined] }
    \cup [kind : {"data"},
          decision : { JsString(d) : d \in {"create", "merge", "skip",
                                             "MERGE", "Skip", "INVALID"} }
                     \cup {JsUndefined, JsNumber(10)},
          match_index : { JsNumber(n2) : n2 \in {0, 2, 3, 4, 6, 198} }
                        \cup {JsUndefined, JsString("2")}]

\* The absent matchId of a result.
NoMatchId == "undefined"

DedupResult(decision, reason, matchId) ==
    [decision |-> decision, reason |-> reason, matchId |-> matchId]

\* similar.length === 0
NoHits_never(similar) == FALSE
NoHits(similar) == Len(similar) = 0

\* similar.slice(0, MAX_SIMILAR_FOR_PROMPT)
TopSimilar(similar) == Slice(similar, MAX_SIMILAR_FOR_PROMPT)

\* topSimilar[i]?.entry.id for the array index i given in halves: an
\* index that is no position of the array yields undefined.
IdAt(topSimilar, i2) ==
    IF i2 % 2 = 0 /\ (i2 \div 2) + 1 \in 1..Len(topSimilar)
    THEN topSimilar[(i2 \div 2) + 1].entry.id
    ELSE NoMatchId

\* The body of llmDecision once completeJson has settled with `out`.
llmDecision(similar, out) ==
    LET topSimilar == TopSimilar(similar)
        idx == out.match_index
        matchId ==
            IF idx.t = "number" /\ idx.n2 >= 2 /\ idx.n2 <= 2 * Len(topSimilar)
            THEN IdAt(topSimilar, idx.n2 - 2)
            ELSE IdAt(topSimilar, 0)
        decision ==
            IF out.decision.t = "undefined" THEN "create"
            ELSE toLowerCase(out.decision.s)
    IN CASE out.kind = "throws" ->
              DedupResult("create", "LLM failed", NoMatchId)
         [] out.kind = "null" ->
              DedupResult("create", "LLM response unparseable", NoMatchId)
         [] out.kind = "data" /\ out.decision.t = "number" ->
              DedupResult("create", "LLM failed", NoMatchId)
         [] out.kind = "data" /\ out.decision.t # "number"
                              /\ decision \notin VALID_DECISIONS ->
              DedupResult("create", "Unknown decision", NoMatchId)
         [] OTHER ->
              DedupResult(decision, "", IF decision = "merge" THEN matchId
                                        ELSE NoMatchId)

\* The search of deduplicate completes.  No hit: it returns create.
\* Otherwise llmDecision builds the prompt and awaits completeJson.
DedupSearch(p) ==
    /\ calls[p].pc = "vectorSearch"
    /\ calls[p].op = "deduplicate"
    /\ sent' = sent \cup {Where("category", calls[p].args.categoryFilter)}
    /\ \E found \in VectorSearch(calls[p].args),
          t \in (IF UseDecay(calls[p].args) THEN Times ELSE {now}) :
          /\ now' = t
          /\ LET similar == Ranked(calls[p].args, Scored(calls[p].args, found, t))
             IN calls' = [calls EXCEPT ![p] =
                   IF NoHits(similar)
                   THEN Finish(Did(@, "query"), "",
                               << DedupResult("create",
                                              "No similar memories found",
                                              NoMatchId) >>)
                   ELSE [Did(@, "query") EXCEPT !.pc = "llm",
                                                !.similar = similar,
                                                !.llmCalls = @ + 1]]
    /\ UNCHANGED << dbVars, initVars, lockVars, uuidsDrawn, addFailures,
                    everStored >>
    /\ UNCHANGED diskVars

\* completeJson settles, in one of outs, and llmDecision returns.
DedupReplied(p, outs) ==
    /\ calls[p].pc = "llm"
    /\ calls[p].op = "deduplicate"
    /\ \E out \in outs :
          calls' = [calls EXCEPT ![p] =
             [Finish(@, "", << llmDecision(@.similar, out) >>)
                EXCEPT !.data = out]]
    /\ UNCHANGED << dbVars, initVars, lockVars, now, uuidsDrawn, addFailures,
                    sent, everStored >>
    /\ UNCHANGED diskVars

DedupLlm(p) == DedupReplied(p, LlmOutcomes)

\* The table of the scenario: three entities, two preferences and one
\* event, all at the same place; some have been recalled.
DedupRows ==
    << SearchRow(OldId, "entities", 0, 1, 2),
       SearchRow(NewId, "entities", 0, 1, 1),
       SearchRow(NewId2, "entities", 0, 1, 0),
       SearchRow(NewId3, "preferences", 0, 1, 0),
       SearchRow(OtherId, "preferences", 0, 1, 1),
       SearchRow(NewId4, "events", 0, 1, 0) >>

\* deduplicate(candidate, candidateVector): the search it makes.
DedupInputs ==
    { [Idle EXCEPT !.op = "deduplicate", !.category = c,
                   !.args = [vector |-> VecAt(0), limit |-> DEDUP_LIMIT,
                             minScore |-> SIMILARITY_THRESHOLD,
                             categoryFilter |-> c, skipDecay |-> FALSE]] :
      c \in {"entities", "preferences", "events", "cases"} }

InvokeDedup(p) == p <= MaxDedups /\ InvokeOf(p, DedupInputs)

InitDedup ==
    /\ tableExists = TRUE
    /\ rows = DedupRows
    /\ everStored = { DedupRows[i].id : i \in 1..Len(DedupRows) }
    /\ dbRef = FALSE
    /\ tableRef = FALSE
    /\ initPromise = "null"
    /\ initPc = "none"
    /\ initBy = 0
    /\ writeLock = 0
    /\ resolved = {0}
    /\ now = 1
    /\ uuidsDrawn = 0
    /\ addFailures = 0
    /\ sent = {}
    /\ calls = [p \in Procs |-> Idle]
    /\ files = NoFiles
    /\ history = << >>

NextDedup ==
    \/ \E p \in Procs : InvokeDedup(p)
    \/ InitConnect
    \/ InitTableNames
    \/ InitOpenTable
    \/ InitSample
    \/ \E p \in Procs : AwaitInit(p)
    \/ \E p \in Procs : DedupSearch(p)
    \/ \E p \in Procs : DedupLlm(p)

SpecDedup == InitDedup /\ [][NextDedup]_vars

(***************************************************************************)
(* MemoryExtractor.processCandidate (extractor.ts).                        *)
(*                                                                         *)
(* A call of processCandidate is a process of its own: `stage` is where it *)
(* is in the extractor, `op` and `pc` are the store (or deduplicator)      *)
(* method it is awaiting.  A step named after a stage is the code that     *)
(* runs when the awaited method or capability has settled.                 *)
(***************************************************************************)
\* Calls issued in the extraction and recall scenario.
MaxExtractCalls == 2

ALWAYS_MERGE_CATEGORIES_none == {}
ALWAYS_MERGE_CATEGORIES == {"profile"}
MERGE_SUPPORTED_CATEGORIES_all ==
    {"preferences", "entities", "patterns", "events", "cases"}
MERGE_SUPPORTED_CATEGORIES == {"preferences", "entities", "patterns"}

CandidateMemory(category) ==
    [category |-> category, abstract |-> "c", overview |-> "c",
     content |-> "c"]

sessionKey == "s1"

\* What embeddings.embed returns: a vector of the configured dimension.
EmbedVector == VecAt(0)

\* The argument of db.store: the candidate, its vector, the session.
StoreEntry(candidate, category, vector) ==
    [category |-> category, abstract |-> candidate.abstract,
     overview |-> candidate.overview, content |-> candidate.content,
     vector |-> vector, source_session |-> sessionKey]

\* What completeJson yields in mergeMemory: it throws, it returns null,
\* or it returns an object; a field that is missing or empty is "".
MergeReply(abstract, overview, content) ==
    [t |-> "data", abstract |-> abstract, overview |-> overview,
     content |-> content]

MergeData ==
    { MergeReply("m", "m", "m"), MergeReply("m", "", "m"),
      MergeReply("", "m", "m"), MergeReply("m", "m", "") }

MergeOutcomes == {[t |-> "throws"], [t |-> "null"]} \cup MergeData

MergeUsable_any(out) == out.t = "data"

\* data?.abstract && data?.content
MergeUsable(out) ==
    /\ out.t = "data"
    /\ out.abstract # ""
    /\ out.content # ""

\* mergeMemory: the reply when it has abstract and content (with the
\* candidate's overview when the reply has none), the candidate otherwise.
mergeMemory(candidate, out) ==
    IF MergeUsable(out)
    THEN [abstract |-> out.abstract,
          overview |-> IF out.overview # "" THEN out.overview
                       ELSE candidate.overview,
          content |-> out.content]
    ELSE [abstract |-> candidate.abstract, overview |-> candidate.overview,
          content |-> candidate.content]

\* The fields handleProfileMerge and handleMerge pass to db.update.
MergedFields(merged, vector) ==
    [abstract |-> merged.abstract, overview |-> merged.overview,
     content |-> merged.content, vector |-> vector]

\* An awaited capability throws: processCandidate throws.
Throw(c, err) == [c EXCEPT !.pc = "done", !.err = err]

\* processCandidate(candidate, sessionKey, stats) is called.  A profile
\* candidate goes to handleProfileMerge, which calls findByCategory; any
\* other candidate is embedded first.
ProcessCandidateOf(p, c) ==
    IF c.candidate.category \in ALWAYS_MERGE_CATEGORIES
    THEN EnsureInit(p, [c EXCEPT !.stage = "handleProfileMerge",
                                 !.op = "findByCategory",
                                 !.category = "profile"])
    ELSE /\ calls' = [calls EXCEPT ![p] =
                        [c EXCEPT !.stage = "embed", !.pc = "embed"]]
         /\ UNCHANGED << dbVars, initVars, lockVars, now, uuidsDrawn,
                         addFailures, sent, everStored >>

\* A call of processCandidate on its own.
ProcessCandidate(p) ==
    /\ calls[p].pc = "idle"
    /\ \A q \in Procs : q < p => calls[q].pc # "idle"
    /\ \E category \in {"profile", "events"} :
          ProcessCandidateOf(p, [Idle EXCEPT
                                   !.caller = "processCandidate",
                                   !.candidate = CandidateMemory(category)])
    /\ UNCHANGED diskVars

\* handleProfileMerge when findByCategory has returned: no record, and
\* the candidate is embedded; a record, and mergeMemory asks the LLM.
ProfileFound(p) ==
    /\ calls[p].stage = "handleProfileMerge"
    /\ calls[p].pc = "done"
    /\ calls[p].err = ""
    /\ calls' = [calls EXCEPT ![p] =
          IF Len(@.result) = 0
          THEN [@ EXCEPT !.stage = "embedNew", !.pc = "embed"]
          ELSE [@ EXCEPT !.stage = "mergeMemory", !.pc = "completeJson",
                         !.target = calls[p].result[1],
                         !.llmCalls = @ + 1]]
    /\ UNCHANGED << dbVars, initVars, lockVars, now, uuidsDrawn, addFailures,
                    sent, everStored >>
    /\ UNCHANGED diskVars

\* The embedding of the new profile arrives and db.store is called, or
\* embed throws.
ProfileEmbedNew(p) ==
    /\ calls[p].stage = "embedNew"
    /\ calls[p].pc = "embed"
    /\ \/ EnsureInit(p, [calls[p] EXCEPT
                            !.stage = "store",
                            !.op = "store",
                            !.entry = StoreEntry(calls[p].candidate, "profile",
                                                 EmbedVector)])
       \/ /\ calls' = [calls EXCEPT ![p] = Throw(@, "EmbedFailed")]
          /\ UNCHANGED << dbVars, initVars, lockVars, now, uuidsDrawn,
                          addFailures, sent, everStored >>
    /\ UNCHANGED diskVars

\* The reply of mergeMemory arrives, one of outs, and the merged text is
\* embedded; or completeJson throws, and so does processCandidate.
MergeReplied(p, outs) ==
    /\ calls[p].stage = "mergeMemory"
    /\ calls[p].pc = "completeJson"
    /\ \E out \in outs :
          calls' = [calls EXCEPT ![p] =
             IF out.t = "throws"
             THEN Throw([@ EXCEPT !.data = out], "LlmFailed")
             ELSE [@ EXCEPT !.stage = "embedMerged", !.pc = "embed",
                            !.data = out,
                            !.fields = mergeMemory(calls[p].candidate,
                                                  out)]]
    /\ UNCHANGED << dbVars, initVars, lockVars, now, uuidsDrawn, addFailures,
                    sent, everStored >>
    /\ UNCHANGED diskVars

\* The replies of the extraction and recall scenario: a full reply, null
\* and a failure.
ProfileMergeOutcomes ==
    { [t |-> "throws"], [t |-> "null"], MergeReply("m", "m", "m") }

ProfileMerged(p) == MergeReplied(p, ProfileMergeOutcomes)

\* Any reply.
MergeArbitrated(p) == MergeReplied(p, MergeOutcomes)

\* The embedding of the merged text arrives and db.update is called on
\* the target, or embed throws.
ProfileEmbedMerged(p) ==
    /\ calls[p].stage = "embedMerged"
    /\ calls[p].pc = "embed"
    /\ \/ EnsureInit(p, [calls[p] EXCEPT
                            !.stage = "update",
                            !.op = "update",
                            !.id = calls[p].target.id,
                            !.fields = MergedFields(calls[p].fields,
                                                    EmbedVector)])
       \/ /\ calls' = [calls EXCEPT ![p] = Throw(@, "EmbedFailed")]
          /\ UNCHANGED << dbVars, initVars, lockVars, now, uuidsDrawn,
                          addFailures, sent, everStored >>
    /\ UNCHANGED diskVars

\* The embedding of a candidate of another category arrives and
\* deduplicate is called: it calls db.search.  Or embed throws.
CandidateEmbedded(p) ==
    /\ calls[p].stage = "embed"
    /\ calls[p].pc = "embed"
    /\ \/ EnsureInit(p, [calls[p] EXCEPT
                            !.stage = "deduplicate",
                            !.op = "deduplicate",
                            !.dedupCalls = @ + 1,
                            !.category = calls[p].candidate.category,
                            !.args = [vector |-> EmbedVector,
                                      limit |-> DEDUP_LIMIT,
                                      minScore |-> SIMILARITY_THRESHOLD,
                                      categoryFilter |->
                                          calls[p].candidate.category,
                                      skipDecay |-> FALSE]])
       \/ /\ calls' = [calls EXCEPT ![p] = Throw(@, "EmbedFailed")]
          /\ UNCHANGED << dbVars, initVars, lockVars, now, uuidsDrawn,
                          addFailures, sent, everStored >>
    /\ UNCHANGED diskVars

\* deduplicate has returned.  create, and merge of a category without
\* merge support or without matchId: db.store is called.  merge otherwise:
\* handleMerge calls db.getById.  skip: processCandidate returns.
Deduplicated(p) ==
    /\ calls[p].stage = "deduplicate"
    /\ calls[p].pc = "done"
    /\ calls[p].err = ""
    /\ LET r == calls[p].result[1]
           c == [calls[p] EXCEPT !.verdict = r]
       IN IF r.decision = "skip"
          THEN /\ calls' = [calls EXCEPT ![p] = [c EXCEPT !.stage = "skipped"]]
               /\ UNCHANGED << dbVars, initVars, lockVars, now, uuidsDrawn,
                               addFailures, sent, everStored >>
          ELSE IF /\ r.decision = "merge"
                  /\ c.candidate.category \in MERGE_SUPPORTED_CATEGORIES
                  /\ r.matchId # NoMatchId
          THEN EnsureInit(p, [c EXCEPT !.stage = "handleMerge",
                                       !.op = "getById", !.id = r.matchId])
          ELSE EnsureInit(p, [c EXCEPT
                                !.stage = "store",
                                !.op = "store",
                                !.entry = StoreEntry(c.candidate,
                                                     c.candidate.category,
                                                     c.args.vector)])
    /\ UNCHANGED diskVars

(***************************************************************************)
(* Extraction and recall on one store: processCandidate calls of profile   *)
(* and event candidates, and increments of the profile record, on a table  *)
(* that is empty or holds one profile record.                              *)
(***************************************************************************)
ProfileRow == SearchRow(OldId, "profile", 0, 1, 0)

RecallInputs ==
    { [Idle EXCEPT !.op = "incrementActiveCount", !.id = OldId] }

InvokeRecall(p) == p <= MaxExtractCalls /\ InvokeOf(p, RecallInputs)

InitExtract ==
    /\ tableExists = TRUE
    /\ rows \in { << >>, << ProfileRow >> }
    /\ everStored = { rows[i].id : i \in 1..Len(rows) }
    /\ dbRef = FALSE
    /\ tableRef = FALSE
    /\ initPromise = "null"
    /\ initPc = "none"
    /\ initBy = 0
    /\ writeLock = 0
    /\ resolved = {0}
    /\ now = 1
    /\ uuidsDrawn = 0
    /\ addFailures = 0
    /\ sent = {}
    /\ calls = [p \in Procs |-> Idle]
    /\ files = NoFiles
    /\ history = << >>

NextExtract ==
    \/ \E p \in 1..MaxExtractCalls : ProcessCandidate(p)
    \/ \E p \in Procs : InvokeRecall(p)
    \/ InitConnect
    \/ InitTableNames
    \/ InitOpenTable
    \/ InitSample
    \/ \E p \in Procs : AwaitInit(p)
    \/ \E p \in Procs : ReadQuery(p)
    \/ \E p \in Procs : ProfileFound(p)
    \/ \E p \in Procs : ProfileEmbedNew(p)
    \/ \E p \in Procs : ProfileMerged(p)
    \/ \E p \in Procs : ProfileEmbedMerged(p)
    \/ \E p \in Procs : CandidateEmbedded(p)
    \/ \E p \in Procs : DedupSearch(p)
    \/ \E p \in Procs : Deduplicated(p)
    \/ \E p \in Procs : StoreAdd(p)
    \/ \E p \in Procs : WriteAcquire(p)
    \/ \E p \in Procs : WriteQuery(p)
    \/ \E p \in Procs : WriteDelete(p)
    \/ \E p \in Procs : WriteAdd(p)
    \/ \E p \in Procs : WriteRestore(p)

SpecExtract == InitExtract /\ [][NextExtract]_vars

(***************************************************************************)
(* CheckpointManager (checkpoint.ts, in ITERATION-SPEC.md).                *)
(*                                                                         *)
(* The file of a session is absent, holds text JSON.parse rejects (a write *)
(* that was cut short), holds the JSON value null, or holds an object with *)
(* the fields sessionKey, stage, candidates and processedIndex.  The       *)
(* fields timestamp and user are left out: nothing modelled reads them.    *)
(* Session keys are file names as they are: getPath changes none of their  *)
(* characters.                                                             *)
(***************************************************************************)
Torn == [t |-> "torn"]
JsonNull == [t |-> "null"]
JsArray(items) == [t |-> "array", s |-> "", n2 |-> 0, items |-> items]

CheckpointObject(key, stage, candidates, processedIndex) ==
    [t |-> "object", sessionKey |-> key, stage |-> stage,
     candidates |-> candidates, processedIndex |-> processedIndex]

\* !v of JavaScript, negated, on the values of the model.
Truthy(v) ==
    CASE v.t = "undefined" -> FALSE
      [] v.t = "string" -> v.s # ""
      [] v.t = "number" -> v.n2 # 0
      [] OTHER -> TRUE

StructureOk_any(cp) == TRUE

\* The structural test of load and of findIncomplete on a parsed object.
StructureOk(cp) ==
    /\ Truthy(cp.sessionKey)
    /\ Truthy(cp.stage)
    /\ cp.candidates.t = "array"
    /\ cp.processedIndex.t = "number"

\* load(sessionKey) on the content of the session's file: readFile throws
\* on an absent file, JSON.parse on text that is not JSON, the test on
\* null; the catch returns null, and so does a failed test.
load(file) ==
    IF file.t # "object" THEN JsonNull
    ELSE IF StructureOk(file) THEN file
    ELSE JsonNull

\* The test of findIncomplete on the content of a file of the directory.
Incomplete(file) ==
    /\ file.t = "object"
    /\ StructureOk(file)
    /\ file.processedIndex.n2 < 2 * Len(file.candidates.items)

\* findIncomplete() on the directory: the checkpoints that pass its test.
findIncomplete(dir) ==
    { dir[k] : k \in { j \in SessionKeys : Incomplete(dir[j]) } }

\* The lists that hold each element of S once: the orders readdir may
\* return the files in.
ListsOf(S) ==
    { l \in [1..Cardinality(S) -> S] : \A a \in S : \E k \in DOMAIN l : l[k] = a }

createInitial(key, candidates) ==
    CheckpointObject(JsString(key), JsString("extracting"),
                     JsArray(candidates), JsNumber(2 * (-1)))

updateProgress_ahead(checkpoint, processedIndex, stage) ==
    [checkpoint EXCEPT !.stage = JsString(stage),
                       !.processedIndex = JsNumber(2 * (processedIndex + 1))]

updateProgress(checkpoint, processedIndex, stage) ==
    [checkpoint EXCEPT !.stage = JsString(stage),
                       !.processedIndex = JsNumber(2 * processedIndex)]

\* checkpoint.processedIndex and checkpoint.candidates, as the batches
\* read them.
ProcessedIndex(checkpoint) == checkpoint.processedIndex.n2 \div 2
CandidatesOf(checkpoint) == checkpoint.candidates.items

\* load(sessionKey) is called, and awaits readFile.
Load(p) ==
    /\ calls[p].pc = "idle"
    /\ \A q \in Procs : q < p => calls[q].pc # "idle"
    /\ \E k \in SessionKeys :
          calls' = [calls EXCEPT ![p] =
             [Idle EXCEPT !.op = "load", !.session = k, !.pc = "readFile"]]
    /\ UNCHANGED << dbVars, initVars, lockVars, now, uuidsDrawn, addFailures,
                    sent, everStored, diskVars >>

\* load returns.
LoadReturned(p) ==
    /\ calls[p].op = "load"
    /\ calls[p].pc = "readFile"
    /\ calls' = [calls EXCEPT ![p] =
          Finish(@, "", << load(files[calls[p].session]) >>)]
    /\ UNCHANGED << dbVars, initVars, lockVars, now, uuidsDrawn, addFailures,
                    sent, everStored, diskVars >>

\* findIncomplete() is called, and awaits readdir.
FindIncomplete(p) ==
    /\ calls[p].pc = "idle"
    /\ \A q \in Procs : q < p => calls[q].pc # "idle"
    /\ calls' = [calls EXCEPT ![p] =
          [Idle EXCEPT !.op = "findIncomplete", !.pc = "readdir"]]
    /\ UNCHANGED << dbVars, initVars, lockVars, now, uuidsDrawn, addFailures,
                    sent, everStored, diskVars >>

\* findIncomplete returns what it found, in the order of the directory.
FindReturned(p) ==
    /\ calls[p].op = "findIncomplete"
    /\ calls[p].pc = "readdir"
    /\ \E found \in ListsOf(findIncomplete(files)) :
          calls' = [calls EXCEPT ![p] = Finish(@, "", found)]
    /\ UNCHANGED << dbVars, initVars, lockVars, now, uuidsDrawn, addFailures,
                    sent, everStored, diskVars >>

\* What a checkpoint file of session k may hold when the program starts:
\* nothing, a write cut short, null, a checkpoint of one or two candidates
\* at each cursor, and a checkpoint with one field missing or of the
\* wrong type.
ValidCheckpoints(k) ==
    { CheckpointObject(JsString(k), JsString("storing"),
                       JsArray([j \in 1..n |-> CandidateMemory("events")]),
                       JsNumber(2 * idx)) :
        n \in 1..2, idx \in -1..1 }

BrokenCheckpoints(k) ==
    LET cp == createInitial(k, << CandidateMemory("events") >>)
    IN { [cp EXCEPT !.sessionKey = JsUndefined],
         [cp EXCEPT !.sessionKey = JsString("")],
         [cp EXCEPT !.stage = JsUndefined],
         [cp EXCEPT !.candidates = JsUndefined],
         [cp EXCEPT !.candidates = JsString("c")],
         [cp EXCEPT !.processedIndex = JsUndefined],
         [cp EXCEPT !.processedIndex = JsString("0")] }

FileContents(k) ==
    {NoFile, Torn, JsonNull} \cup ValidCheckpoints(k) \cup BrokenCheckpoints(k)

InitFiles ==
    /\ tableExists = TRUE
    /\ rows = << >>
    /\ everStored = {}
    /\ dbRef = FALSE
    /\ tableRef = FALSE
    /\ initPromise = "null"
    /\ initPc = "none"
    /\ initBy = 0
    /\ writeLock = 0
    /\ resolved = {0}
    /\ now = 1
    /\ uuidsDrawn = 0
    /\ addFailures = 0
    /\ sent = {}
    /\ calls = [p \in Procs |-> Idle]
    /\ files \in [SessionKeys -> UNION { FileContents(k) : k \in SessionKeys }]
    /\ \A k \in SessionKeys : files[k] \in FileContents(k)
    /\ history = << >>

NextFiles ==
    \/ \E p \in Procs : Load(p)
    \/ \E p \in Procs : LoadReturned(p)
    \/ \E p \in Procs : FindIncomplete(p)
    \/ \E p \in Procs : FindReturned(p)

SpecFiles == InitFiles /\ [][NextFiles]_vars

(***************************************************************************)
(* handleMerge, and the batch loop of extractAndPersist (extractor.ts).    *)
(*                                                                         *)
(* A batch is a process too: `batch` names its method, `candidates` and    *)
(* `i` are the list and the loop index, and while candidate i is processed *)
(* the process is the processCandidate call of the sections above.         *)
(***************************************************************************)
MaxCandidates == 2   \* candidates in a batch

\* handleMerge when getById has returned: no target, and it returns; a
\* target, and mergeMemory asks the LLM.
MergeTargetFound(p) ==
    /\ calls[p].stage = "handleMerge"
    /\ calls[p].pc = "done"
    /\ calls[p].err = ""
    /\ calls' = [calls EXCEPT ![p] =
          IF Len(@.result) = 0
          THEN [@ EXCEPT !.stage = "noTarget"]
          ELSE [@ EXCEPT !.stage = "mergeMemory", !.pc = "completeJson",
                         !.target = calls[p].result[1],
                         !.llmCalls = @ + 1]]
    /\ UNCHANGED << dbVars, initVars, lockVars, now, uuidsDrawn, addFailures,
                    sent, everStored, diskVars >>

\* processCandidate has returned: the store method of its last stage has.
Returned(c) ==
    /\ c.caller = "processCandidate"
    /\ c.pc = "done"
    /\ c.err = ""
    /\ c.stage \in {"store", "update", "noTarget", "skipped"}

\* processCandidate has thrown: something it awaited has.
Thrown(c) ==
    /\ c.caller = "processCandidate"
    /\ c.pc = "done"
    /\ c.err # ""

Counter_created(c) == "created"

\* The counter incremented for a candidate: by the catch of the loop when
\* processCandidate threw, by processCandidate on the way it returned.
Counter(c) ==
    IF Thrown(c) THEN "skipped"
    ELSE IF c.candidate.category \in ALWAYS_MERGE_CATEGORIES THEN "merged"
    ELSE IF c.stage = "store" THEN "created"
    ELSE IF c.stage \in {"update", "noTarget"} THEN "merged"
    ELSE "skipped"

\* The candidate lists extractCandidates returns.
BatchesOf(categories) ==
    UNION { [1..k -> { CandidateMemory(category) :
                         category \in categories }] :
            k \in 0..MaxCandidates }

BatchCategories == {"profile", "events", "entities"}

Batches == BatchesOf(BatchCategories)

\* What a batch keeps from one candidate to the next.
Carry(c) ==
    [Idle EXCEPT !.batch = c.batch, !.candidates = c.candidates, !.i = c.i,
                 !.stats = c.stats, !.extractCalls = c.extractCalls,
                 !.checkpoint = c.checkpoint, !.session = c.session,
                 !.outcomes = c.outcomes, !.pending = c.pending]

\* extractAndPersist(conversationText, sessionKey, user) is called: it
\* awaits extractCandidates.
ExtractAndPersist(p) ==
    /\ calls[p].pc = "idle"
    /\ \A q \in Procs : q < p => calls[q].pc # "idle"
    /\ calls' = [calls EXCEPT ![p] =
          [Idle EXCEPT !.batch = "extractAndPersist",
                       !.pc = "extractCandidates",
                       !.extractCalls = 1,
                       !.session = sessionKey]]
    /\ UNCHANGED << dbVars, initVars, lockVars, now, uuidsDrawn, addFailures,
                    sent, everStored, diskVars >>

\* extractCandidates returns the candidates of the batch, one of batches:
\* none (and the batch returns) or some; or it throws (and so does the
\* batch).  extractAndPersist goes on to its loop, extractWithCheckpoint
\* creates the initial checkpoint and saves it.
ExtractedOf(p, batches) ==
    /\ calls[p].batch \in {"extractAndPersist", "extractWithCheckpoint"}
    /\ calls[p].pc = "extractCandidates"
    /\ \/ \E cs \in batches :
            /\ calls' = [calls EXCEPT ![p] =
                  IF Len(cs) = 0 THEN [@ EXCEPT !.pc = "returned"]
                  ELSE IF calls[p].batch = "extractAndPersist"
                  THEN [@ EXCEPT !.pc = "loop", !.candidates = cs]
                  ELSE [@ EXCEPT !.pc = "save", !.candidates = cs,
                                 !.checkpoint =
                                    createInitial(calls[p].session, cs)]]
            /\ history' = IF Len(cs) = 0 THEN history
                          ELSE Append(history,
                                      Event("extracted", calls[p].session,
                                            Len(cs), p))
       \/ /\ calls' = [calls EXCEPT ![p] =
                         [@ EXCEPT !.pc = "returned", !.err = "LlmFailed"]]
          /\ UNCHANGED history
    /\ UNCHANGED << dbVars, initVars, lockVars, now, uuidsDrawn, addFailures,
                    sent, everStored, files >>

Extracted(p) == ExtractedOf(p, Batches)

\* The head of the loop: processCandidate is called on candidate i, or
\* the loop is over.
BatchLoop(p) ==
    /\ calls[p].batch # ""
    /\ calls[p].pc = "loop"
    /\ LET c == calls[p]
       IN IF c.i < Len(c.candidates)
          THEN /\ ProcessCandidateOf(p,
                     [Carry(c) EXCEPT !.caller = "processCandidate",
                                      !.candidate = c.candidates[c.i + 1]])
               /\ history' = Append(history, Event("attempt", c.session, c.i, p))
               /\ UNCHANGED files
          ELSE /\ calls' = [calls EXCEPT ![p].pc =
                     IF c.batch = "extractAndPersist" THEN "returned"
                     ELSE "clear"]
               /\ UNCHANGED << dbVars, initVars, lockVars, now, uuidsDrawn,
                               addFailures, sent, everStored, diskVars >>

\* processCandidate has returned or thrown: the candidate is counted.
\* extractAndPersist goes on to the next one; a checkpointed batch updates
\* its checkpoint and saves it first.
BatchCounted(p) ==
    /\ calls[p].batch # ""
    /\ Returned(calls[p]) \/ Thrown(calls[p])
    /\ LET c == calls[p]
           counter == Counter(c)
           counted == [Carry(c) EXCEPT
                         !.stats = [c.stats EXCEPT ![counter] = @ + 1],
                         !.outcomes = Append(c.outcomes,
                                             [threw |-> Thrown(c),
                                              counter |-> counter])]
       IN /\ calls' = [calls EXCEPT ![p] =
                IF c.batch = "extractAndPersist"
                THEN [counted EXCEPT !.i = c.i + 1, !.pc = "loop"]
                ELSE [counted EXCEPT
                        !.checkpoint =
                           updateProgress(c.checkpoint, c.i, "storing"),
                        !.pc = "save"]]
          /\ history' = Append(history, Event("counted", c.session, c.i, p))
    /\ UNCHANGED << dbVars, initVars, lockVars, now, uuidsDrawn, addFailures,
                    sent, everStored, files >>

(***************************************************************************)
(* extractWithCheckpoint and resumeIncomplete (extractor.ts), and a crash  *)
(* of the process.  The scenarios run one batch at a time.                 *)
(***************************************************************************)
MaxCrashes == 1   \* crashes of the process

StartIndex_zero(checkpoint) == 0

StartIndex_back(checkpoint) ==
    IF ProcessedIndex(checkpoint) < 0 THEN 0 ELSE ProcessedIndex(checkpoint)

\* startIndex of a resumed batch: processedIndex + 1.
StartIndex(checkpoint) == ProcessedIndex(checkpoint) + 1

Checkpointed == {"extractWithCheckpoint", "resumeIncomplete"}

\* extractWithCheckpoint(conversationText, sessionKey, user, checkpointMgr)
\* is called: it awaits load(sessionKey).
ExtractWithCheckpoint(p) ==
    /\ calls[p].pc = "idle"
    /\ \A q \in Procs : q < p => calls[q].pc = "returned"
    /\ calls' = [calls EXCEPT ![p] =
          [Idle EXCEPT !.batch = "extractWithCheckpoint", !.pc = "load",
                       !.session = sessionKey]]
    /\ UNCHANGED << dbVars, initVars, lockVars, now, uuidsDrawn, addFailures,
                    sent, everStored, diskVars >>

\* load has returned: a checkpoint, and the batch resumes after its
\* cursor; null, and the batch extracts the candidates.
Loaded(p) ==
    /\ calls[p].batch = "extractWithCheckpoint"
    /\ calls[p].pc = "load"
    /\ LET c == calls[p]
           checkpoint == load(files[c.session])
       IN IF checkpoint # JsonNull
          THEN /\ calls' = [calls EXCEPT ![p] =
                     [c EXCEPT !.checkpoint = checkpoint,
                               !.candidates = CandidatesOf(checkpoint),
                               !.i = StartIndex(checkpoint),
                               !.pc = "loop"]]
               /\ history' = Append(history,
                                    Event("resumed", c.session,
                                          ProcessedIndex(checkpoint), p))
          ELSE /\ calls' = [calls EXCEPT ![p] =
                     [c EXCEPT !.pc = "extractCandidates",
                               !.extractCalls = @ + 1]]
               /\ UNCHANGED history
    /\ UNCHANGED << dbVars, initVars, lockVars, now, uuidsDrawn, addFailures,
                    sent, everStored, files >>

\* save(checkpoint) returns, the file written and the loop at the
\* candidate after the cursor; or mkdir or writeFile throws, the file as
\* it was or cut short, and the exception leaves extractWithCheckpoint,
\* or resumeFromCheckpoint into the catch of resumeIncomplete.
Saved(p) ==
    /\ calls[p].batch \in Checkpointed
    /\ calls[p].pc = "save"
    /\ LET c == calls[p]
       IN \/ /\ files' = [files EXCEPT ![c.session] = c.checkpoint]
             /\ calls' = [calls EXCEPT ![p] =
                   [c EXCEPT !.i = ProcessedIndex(c.checkpoint) + 1,
                             !.pc = "loop"]]
          \/ /\ \E file \in {files[c.session], Torn} :
                   files' = [files EXCEPT ![c.session] = file]
             /\ calls' = [calls EXCEPT ![p] =
                   IF c.batch = "resumeIncomplete"
                   THEN [c EXCEPT !.pc = "next"]
                   ELSE [c EXCEPT !.pc = "returned", !.err = "SaveFailed"]]
    /\ UNCHANGED << dbVars, initVars, lockVars, now, uuidsDrawn, addFailures,
                    sent, everStored, history >>

\* clear(sessionKey) returns: unlink has removed the file, or has thrown
\* and clear has logged it.
Cleared(p) ==
    /\ calls[p].batch \in Checkpointed
    /\ calls[p].pc = "clear"
    /\ \E file \in {NoFile, files[calls[p].session]} :
          files' = [files EXCEPT ![calls[p].session] = file]
    /\ calls' = [calls EXCEPT ![p].pc =
          IF calls[p].batch = "resumeIncomplete" THEN "next" ELSE "returned"]
    /\ UNCHANGED << dbVars, initVars, lockVars, now, uuidsDrawn, addFailures,
                    sent, everStored, history >>

\* resumeIncomplete(checkpointMgr) is called: it awaits findIncomplete().
ResumeIncomplete(p) ==
    /\ calls[p].pc = "idle"
    /\ \A q \in Procs : q < p => calls[q].pc = "returned"
    /\ calls' = [calls EXCEPT ![p] =
          [Idle EXCEPT !.batch = "resumeIncomplete",
                       !.pc = "findIncomplete"]]
    /\ UNCHANGED << dbVars, initVars, lockVars, now, uuidsDrawn, addFailures,
                    sent, everStored, diskVars >>

\* findIncomplete has returned the checkpoints to resume.
Found(p) ==
    /\ calls[p].batch = "resumeIncomplete"
    /\ calls[p].pc = "findIncomplete"
    /\ \E found \in ListsOf(findIncomplete(files)) :
          calls' = [calls EXCEPT ![p] =
             [@ EXCEPT !.pending = found, !.pc = "next"]]
    /\ UNCHANGED << dbVars, initVars, lockVars, now, uuidsDrawn, addFailures,
                    sent, everStored, diskVars >>

\* The loop of resumeIncomplete: resumeFromCheckpoint is called on the
\* next checkpoint found, or the loop is over.
ResumeNext(p) ==
    /\ calls[p].batch = "resumeIncomplete"
    /\ calls[p].pc = "next"
    /\ LET c == calls[p]
       IN IF c.pending = << >>
          THEN /\ calls' = [calls EXCEPT ![p].pc = "returned"]
               /\ UNCHANGED history
          ELSE LET checkpoint == Head(c.pending)
               IN /\ calls' = [calls EXCEPT ![p] =
                        [Idle EXCEPT !.batch = c.batch,
                                     !.pending = Tail(c.pending),
                                     !.checkpoint = checkpoint,
                                     !.session = checkpoint.sessionKey.s,
                                     !.candidates = CandidatesOf(checkpoint),
                                     !.i = StartIndex(checkpoint),
                                     !.pc = "loop"]]
                  /\ history' = Append(history,
                                       Event("resumed",
                                             checkpoint.sessionKey.s,
                                             ProcessedIndex(checkpoint), p))
    /\ UNCHANGED << dbVars, initVars, lockVars, now, uuidsDrawn, addFailures,
                    sent, everStored, files >>

\* The crashes so far.
Crashes == Cardinality({ k \in DOMAIN history : history[k].kind = "crash" })

\* The process dies while a checkpointed batch is under way, and is
\* started again: what it held in memory is gone, the table and the
\* checkpoint directory stay.  A writeFile or an unlink under way may or
\* may not have taken effect, and the write may have been cut short.
Crash ==
    /\ Crashes < MaxCrashes
    /\ \E p \in Procs :
          /\ calls[p].batch \in Checkpointed
          /\ calls[p].pc # "returned"
    /\ \E dir \in [SessionKeys -> UNION { {files[k], NoFile, Torn} \cup
                        { calls[p].checkpoint : p \in { q \in Procs :
                              calls[q].pc = "save" } } :
                        k \in SessionKeys }] :
          /\ \A k \in SessionKeys :
                \/ dir[k] = files[k]
                \/ \E p \in Procs :
                      /\ calls[p].session = k
                      /\ \/ /\ calls[p].pc = "save"
                            /\ dir[k] \in {Torn, calls[p].checkpoint}
                         \/ /\ calls[p].pc = "clear"
                            /\ dir[k] = NoFile
          /\ files' = dir
    /\ calls' = [p \in Procs |-> Idle]
    /\ dbRef' = FALSE
    /\ tableRef' = FALSE
    /\ initPromise' = "null"
    /\ initPc' = "none"
    /\ initBy' = 0
    /\ writeLock' = 0
    /\ resolved' = {0}
    /\ history' = Append(history, Event("crash", "", 0, 0))
    /\ UNCHANGED << dbVars, now, uuidsDrawn, addFailures, sent, everStored >>

(***************************************************************************)
(* One batch on a table with a record of a category that merges and one    *)
(* of a category that does not.                                            *)
(***************************************************************************)
\* The replies of the dedup arbitration in the scenario: a failure, null,
\* and each decision, a merge with and without a usable match_index.
BatchLlmOutcomes ==
    { out \in LlmOutcomes :
        \/ out.kind # "data"
        \/ /\ out.decision \in {JsString("create"), JsString("skip")}
           /\ out.match_index = JsUndefined
        \/ /\ out.decision = JsString("merge")
           /\ out.match_index \in {JsNumber(2), JsNumber(3)} }

DedupArbitrated(p) == DedupReplied(p, BatchLlmOutcomes)

BatchRows ==
    << SearchRow(OldId, "entities", 0, 1, 0),
       SearchRow(NewId4, "events", 0, 1, 0) >>

InitBatch ==
    /\ tableExists = TRUE
    /\ rows = BatchRows
    /\ everStored = { rows[i].id : i \in 1..Len(rows) }
    /\ dbRef = FALSE
    /\ tableRef = FALSE
    /\ initPromise = "null"
    /\ initPc = "none"
    /\ initBy = 0
    /\ writeLock = 0
    /\ resolved = {0}
    /\ now = 1
    /\ uuidsDrawn = 0
    /\ addFailures = 0
    /\ sent = {}
    /\ calls = [p \in Procs |-> Idle]
    /\ files = NoFiles
    /\ history = << >>

NextBatch ==
    \/ ExtractAndPersist(1)
    \/ \E p \in Procs : Extracted(p)
    \/ \E p \in Procs : BatchLoop(p)
    \/ \E p \in Procs : BatchCounted(p)
    \/ InitConnect
    \/ InitTableNames
    \/ InitOpenTable
    \/ InitSample
    \/ \E p \in Procs : AwaitInit(p)
    \/ \E p \in Procs : ReadQuery(p)
    \/ \E p \in Procs : ProfileFound(p)
    \/ \E p \in Procs : ProfileEmbedNew(p)
    \/ \E p \in Procs : MergeTargetFound(p)
    \/ \E p \in Procs : MergeArbitrated(p)
    \/ \E p \in Procs : ProfileEmbedMerged(p)
    \/ \E p \in Procs : CandidateEmbedded(p)
    \/ \E p \in Procs : DedupSearch(p)
    \/ \E p \in Procs : DedupArbitrated(p)
    \/ \E p \in Procs : Deduplicated(p)
    \/ \E p \in Procs : StoreAdd(p)
    \/ \E p \in Procs : WriteAcquire(p)
    \/ \E p \in Procs : WriteQuery(p)
    \/ \E p \in Procs : WriteDelete(p)
    \/ \E p \in Procs : WriteAdd(p)
    \/ \E p \in Procs : WriteRestore(p)

SpecBatch == InitBatch /\ [][NextBatch]_vars

(***************************************************************************)
(* One batch of candidates of the append-only categories and of one that   *)
(* merges, on a table with a record of each.                               *)
(***************************************************************************)
AppendOnlyBatches == BatchesOf({"events", "cases", "entities"})

AppendOnlyExtracted(p) == ExtractedOf(p, AppendOnlyBatches)

AppendOnlyRows == Append(BatchRows, SearchRow(NewId3, "cases", 0, 1, 0))

InitAppendOnly ==
    /\ tableExists = TRUE
    /\ rows = AppendOnlyRows
    /\ everStored = { rows[i].id : i \in 1..Len(rows) }
    /\ dbRef = FALSE
    /\ tableRef = FALSE
    /\ initPromise = "null"
    /\ initPc = "none"
    /\ initBy = 0
    /\ writeLock = 0
    /\ resolved = {0}
    /\ now = 1
    /\ uuidsDrawn = 0
    /\ addFailures = 0
    /\ sent = {}
    /\ calls = [p \in Procs |-> Idle]
    /\ files = NoFiles
    /\ history = << >>

NextAppendOnly ==
    \/ ExtractAndPersist(1)
    \/ \E p \in Procs : AppendOnlyExtracted(p)
    \/ \E p \in Procs : BatchLoop(p)
    \/ \E p \in Procs : BatchCounted(p)
    \/ InitConnect
    \/ InitTableNames
    \/ InitOpenTable
    \/ InitSample
    \/ \E p \in Procs : AwaitInit(p)
    \/ \E p \in Procs : ReadQuery(p)
    \/ \E p \in Procs : MergeTargetFound(p)
    \/ \E p \in Procs : MergeArbitrated(p)
    \/ \E p \in Procs : ProfileEmbedMerged(p)
    \/ \E p \in Procs : CandidateEmbedded(p)
    \/ \E p \in Procs : DedupSearch(p)
    \/ \E p \in Procs : DedupArbitrated(p)
    \/ \E p \in Procs : Deduplicated(p)
    \/ \E p \in Procs : StoreAdd(p)
    \/ \E p \in Procs : WriteAcquire(p)
    \/ \E p \in Procs : WriteQuery(p)
    \/ \E p \in Procs : WriteDelete(p)
    \/ \E p \in Procs : WriteAdd(p)
    \/ \E p \in Procs : WriteRestore(p)

SpecAppendOnly == InitAppendOnly /\ [][NextAppendOnly]_vars

(***************************************************************************)
(* Checkpointed batches of candidates of category events on an empty       *)
(* table, one at a time, with crashes: extractWithCheckpoint for one       *)
(* session, and resumeIncomplete when the process starts.  table.add does  *)
(* not fail here; a candidate throws when embed does.                      *)
(***************************************************************************)
CheckpointBatches == BatchesOf({"events"})

CheckpointExtracted(p) == ExtractedOf(p, CheckpointBatches)

\* The replies of the dedup arbitration in the scenario: create and skip.
CheckpointLlmOutcomes ==
    { out \in LlmOutcomes :
        /\ out.kind = "data"
        /\ out.decision \in {JsString("create"), JsString("skip")}
        /\ out.match_index = JsUndefined }

CheckpointArbitrated(p) == DedupReplied(p, CheckpointLlmOutcomes)

InitCheckpoint ==
    /\ tableExists = TRUE
    /\ rows = << >>
    /\ everStored = {}
    /\ dbRef = FALSE
    /\ tableRef = FALSE
    /\ initPromise = "null"
    /\ initPc = "none"
    /\ initBy = 0
    /\ writeLock = 0
    /\ resolved = {0}
    /\ now = 1
    /\ uuidsDrawn = 0
    /\ addFailures = MaxAddFailures
    /\ sent = {}
    /\ calls = [p \in Procs |-> Idle]
    /\ files = NoFiles
    /\ history = << >>

NextCheckpoint ==
    \/ ExtractWithCheckpoint(1)
    \/ \E p \in Procs : Loaded(p)
    \/ \E p \in Procs : CheckpointExtracted(p)
    \/ \E p \in Procs : Saved(p)
    \/ \E p \in Procs : BatchLoop(p)
    \/ \E p \in Procs : BatchCounted(p)
    \/ \E p \in Procs : Cleared(p)
    \/ ResumeIncomplete(1)
    \/ \E p \in Procs : Found(p)
    \/ \E p \in Procs : ResumeNext(p)
    \/ Crash
    \/ InitConnect
    \/ InitTableNames
    \/ InitOpenTable
    \/ InitSample
    \/ \E p \in Procs : AwaitInit(p)
    \/ \E p \in Procs : CandidateEmbedded(p)
    \/ \E p \in Procs : DedupSearch(p)
    \/ \E p \in Procs : CheckpointArbitrated(p)
    \/ \E p \in Procs : Deduplicated(p)
    \/ \E p \in Procs : StoreAdd(p)

SpecCheckpoint == InitCheckpoint /\ [][NextCheckpoint]_vars

(***************************************************************************)
(* LlmClient.completeJson and parseJsonFromResponse (llm.ts).              *)
(*                                                                         *)
(* A text is a sequence of tokens: the braces, a member key with its colon *)
(* ("k" for "a":), a number, a code fence, and text that is no JSON ("x"). *)
(* The JSON values over these tokens are a number, the empty object, and   *)
(* an object with one member.                                              *)
(***************************************************************************)
MaxTextLen == 5   \* tokens in a reply of the completion backend

Tokens == {"{", "}", "k", "1", "x", "fence"}

Texts == UNION { [1..n -> Tokens] : n \in 0..MaxTextLen }

\* The text is one JSON value.
RECURSIVE IsJson(_)
IsJson(s) ==
    \/ s = << "1" >>
    \/ s = << "{", "}" >>
    \/ /\ Len(s) >= 4
       /\ s[1] = "{"
       /\ s[2] = "k"
       /\ s[Len(s)] = "}"
       /\ IsJson(SubSeq(s, 3, Len(s) - 1))

\* The value of a JSON text.
RECURSIVE JsonValue(_)
JsonValue(s) ==
    IF s = << "1" >> THEN [t |-> "number", members |-> << >>]
    ELSE IF s = << "{", "}" >> THEN [t |-> "object", members |-> << >>]
    ELSE [t |-> "object",
          members |-> << JsonValue(SubSeq(s, 3, Len(s) - 1)) >>]

SyntaxError == [t |-> "throws", members |-> << >>]

\* JSON.parse(text): the value, or a SyntaxError.
JSONparse(s) == IF IsJson(s) THEN JsonValue(s) ELSE SyntaxError

\* The positions of a token in the text.
PositionsOf(text, token) == { i \in DOMAIN text : text[i] = token }

Least(S) == CHOOSE i \in S : \A j \in S : i <= j
Greatest(S) == CHOOSE i \in S : \A j \in S : j <= i

NoMatch == [found |-> FALSE, text |-> << >>]
Match(text) == [found |-> TRUE, text |-> text]

\* text.match of the fence pattern: what lies between the first fence and
\* the one after it.
fenceMatch(text) ==
    LET fences == PositionsOf(text, "fence")
    IN IF Cardinality(fences) < 2 THEN NoMatch
       ELSE LET a == Least(fences)
                b == Least(fences \ {a})
            IN Match(SubSeq(text, a + 1, b - 1))

\* text.match(/(\{[\s\S]*\})/): from the first opening brace to the last
\* closing brace after it.
braceMatch(text) ==
    LET opens == PositionsOf(text, "{")
    IN IF opens = {} THEN NoMatch
       ELSE LET a == Least(opens)
                closes == { j \in PositionsOf(text, "}") : j > a }
            IN IF closes = {} THEN NoMatch
               ELSE Match(SubSeq(text, a, Greatest(closes)))

\* One more attempt of parseJsonFromResponse: the match parsed, or next.
Attempt(match, next) ==
    IF match.found /\ JSONparse(match.text) # SyntaxError
    THEN JSONparse(match.text)
    ELSE next

parseJsonFromResponse(text) ==
    Attempt(Match(text),
            Attempt(fenceMatch(text),
                    Attempt(braceMatch(text), JsonNull)))

\* completeJson(prompt) is called: it awaits complete(prompt).
CompleteJson(p) ==
    /\ calls[p].pc = "idle"
    /\ \A q \in Procs : q < p => calls[q].pc # "idle"
    /\ calls' = [calls EXCEPT ![p] =
          [Idle EXCEPT !.op = "completeJson", !.pc = "complete"]]
    /\ UNCHANGED << dbVars, initVars, lockVars, now, uuidsDrawn, addFailures,
                    sent, everStored, diskVars >>

\* complete has returned the reply, and completeJson returns what
\* parseJsonFromResponse makes of it; or complete has thrown.
Completed(p) ==
    /\ calls[p].op = "completeJson"
    /\ calls[p].pc = "complete"
    /\ \/ \E raw \in Texts :
            calls' = [calls EXCEPT ![p] =
               [Finish(@, "", << parseJsonFromResponse(raw) >>)
                  EXCEPT !.args = [raw |-> raw]]]
       \/ calls' = [calls EXCEPT ![p] = Finish(@, "LlmFailed", << >>)]
    /\ UNCHANGED << dbVars, initVars, lockVars, now, uuidsDrawn, addFailures,
                    sent, everStored, diskVars >>

NextParse ==
    \/ CompleteJson(1)
    \/ \E p \in Procs : Completed(p)

SpecParse == InitCheckpoint /\ [][NextParse]_vars

(***************************************************************************)
(* extractCandidates (extractor.ts): the items of data.memories that have  *)
(* a category of MEMORY_CATEGORIES, an abstract and a content.             *)
(***************************************************************************)
\* An item of data.memories as the completion backend wrote it; a field
\* that is missing or empty is "".
MemoryItem(category, abstract, content) ==
    [category |-> category, abstract |-> abstract, overview |-> "c",
     content |-> content]

MemoryItems ==
    { MemoryItem("events", "c", "c"), MemoryItem("entities", "c", "c"),
      MemoryItem("profile", "c", "c"),
      MemoryItem("unknown", "c", "c"), MemoryItem("", "c", "c"),
      MemoryItem("entities", "", "c"), MemoryItem("entities", "c", "") }

\* The values of data.memories.
Replies == UNION { [1..k -> MemoryItems] : k \in 0..MaxCandidates }

Kept_any(m) == TRUE

\* The filter of extractCandidates.
Kept(m) ==
    /\ m.category # ""
    /\ m.abstract # ""
    /\ m.content # ""
    /\ m.category \in MEMORY_CATEGORIES

\* data.memories.filter(...).map(...)
extractCandidates(memories) ==
    LET kept == SelectSeq(memories, Kept)
    IN [k \in 1..Len(kept) |->
          [category |-> kept[k].category, abstract |-> kept[k].abstract,
           overview |-> kept[k].overview, content |-> kept[k].content]]

\* completeJson returns data with the memories of one of replies, and
\* extractAndPersist goes on with what extractCandidates keeps of them; or
\* completeJson throws, and so does the batch.
ExtractedFrom(p, replies) ==
    /\ calls[p].batch = "extractAndPersist"
    /\ calls[p].pc = "extractCandidates"
    /\ \/ \E memories \in replies :
            LET cs == extractCandidates(memories)
                log == Append(history,
                              Event("reply", calls[p].session,
                                    Len(memories), p))
            IN /\ calls' = [calls EXCEPT ![p] =
                     IF Len(cs) = 0 THEN [@ EXCEPT !.pc = "returned"]
                     ELSE [@ EXCEPT !.pc = "loop", !.candidates = cs]]
               /\ history' = IF Len(cs) = 0 THEN log
                             ELSE Append(log,
                                         Event("extracted", calls[p].session,
                                               Len(cs), p))
       \/ /\ calls' = [calls EXCEPT ![p] =
                         [@ EXCEPT !.pc = "returned", !.err = "LlmFailed"]]
          /\ UNCHANGED history
    /\ UNCHANGED << dbVars, initVars, lockVars, now, uuidsDrawn, addFailures,
                    sent, everStored, files >>

CandidatesExtracted(p) == ExtractedFrom(p, Replies)

NextValid ==
    \/ ExtractAndPersist(1)
    \/ \E p \in Procs : CandidatesExtracted(p)
    \/ \E p \in Procs : BatchLoop(p)
    \/ \E p \in Procs : BatchCounted(p)
    \/ InitConnect
    \/ InitTableNames
    \/ InitOpenTable
    \/ InitSample
    \/ \E p \in Procs : AwaitInit(p)
    \/ \E p \in Procs : ReadQuery(p)
    \/ \E p \in Procs : ProfileFound(p)
    \/ \E p \in Procs : ProfileEmbedNew(p)
    \/ \E p \in Procs : MergeTargetFound(p)
    \/ \E p \in Procs : MergeArbitrated(p)
    \/ \E p \in Procs : ProfileEmbedMerged(p)
    \/ \E p \in Procs : CandidateEmbedded(p)
    \/ \E p \in Procs : DedupSearch(p)
    \/ \E p \in Procs : DedupArbitrated(p)
    \/ \E p \in Procs : Deduplicated(p)
    \/ \E p \in Procs : StoreAdd(p)
    \/ \E p \in Procs : WriteAcquire(p)
    \/ \E p \in Procs : WriteQuery(p)
    \/ \E p \in Procs : WriteDelete(p)
    \/ \E p \in Procs : WriteAdd(p)
    \/ \E p \in Procs : WriteRestore(p)

SpecValid == InitBatch /\ [][NextValid]_vars

(***************************************************************************)
(* Recall and extraction on one record: incrementActiveCount calls, the    *)
(* update calls of handleMerge, and a store of a new record.               *)
(***************************************************************************)
\* The fields handleMerge passes to update: the merge of an events
\* candidate on a complete reply and on no reply.
MergeUpdates ==
    { MergedFields(mergeMemory(CandidateMemory("events"), out), EmbedVector) :
        out \in { MergeReply("m", "m", "m"), [t |-> "null"] } }

CountInputs ==
    { [Idle EXCEPT !.op = "incrementActiveCount", !.id = OldId] }
    \cup { [Idle EXCEPT !.op = "update", !.id = OldId, !.fields = f] :
           f \in MergeUpdates }
    \cup { [Idle EXCEPT !.op = "store", !.entry = e] :
           e \in { x \in Entries : x.category \in MEMORY_CATEGORIES
                                   /\ Len(x.vector) = VectorDim } }

InvokeCount(p) == InvokeOf(p, CountInputs)

NextCount ==
    \/ \E p \in Procs : InvokeCount(p)
    \/ InitConnect
    \/ InitTableNames
    \/ InitOpenTable
    \/ InitSample
    \/ \E p \in Procs : AwaitInit(p)
    \/ \E p \in Procs : StoreAdd(p)
    \/ \E p \in Procs : WriteAcquire(p)
    \/ \E p \in Procs : WriteQuery(p)
    \/ \E p \in Procs : WriteDelete(p)
    \/ \E p \in Procs : WriteAdd(p)
    \/ \E p \in Procs : WriteRestore(p)

SpecCount == InitWrites /\ [][NextCount]_vars

(***************************************************************************)
(* The write queue under failing inserts: incrementActiveCount and merge   *)
(* updates of one record.  Every promise that has settled has its          *)
(* continuation run by the event loop, and every awaited call of the       *)
(* table settles: the steps of doInit and of the write bodies are weakly   *)
(* fair; calls are issued or not.                                          *)
(***************************************************************************)
QueueInputs ==
    { c \in CountInputs :
        IsWrite(c) /\ (c.op = "update" => c.fields.abstract = "m") }

InvokeQueue(p) == InvokeOf(p, QueueInputs)

NextQueue ==
    \/ \E p \in Procs : InvokeQueue(p)
    \/ InitConnect
    \/ InitTableNames
    \/ InitOpenTable
    \/ InitSample
    \/ \E p \in Procs : AwaitInit(p)
    \/ \E p \in Procs : WriteAcquire(p)
    \/ \E p \in Procs : WriteQuery(p)
    \/ \E p \in Procs : WriteDelete(p)
    \/ \E p \in Procs : WriteAdd(p)
    \/ \E p \in Procs : WriteRestore(p)

EventLoop ==
    /\ WF_vars(InitConnect)
    /\ WF_vars(InitTableNames)
    /\ WF_vars(InitOpenTable)
    /\ WF_vars(InitSample)
    /\ \A p \in Procs :
          /\ WF_vars(AwaitInit(p))
          /\ WF_vars(WriteAcquire(p))
          /\ WF_vars(WriteQuery(p))
          /\ WF_vars(WriteDelete(p))
          /\ WF_vars(WriteAdd(p))
          /\ WF_vars(WriteRestore(p))

SpecQueue == InitWrites /\ [][NextQueue]_vars /\ EventLoop

(***************************************************************************)
(* A new instance on a directory without the table: doInit creates it with *)
(* the placeholder row and deletes the row, while findByCategory, getById  *)
(* and store are called.                                                   *)
(***************************************************************************)
CreateInputs ==
    { [Idle EXCEPT !.op = "findByCategory", !.category = SchemaRow.category],
      [Idle EXCEPT !.op = "getById", !.id = OldId] }
    \cup { [Idle EXCEPT !.op = "store", !.entry = e] :
           e \in { x \in Entries : x.category \in MEMORY_CATEGORIES
                                   /\ Len(x.vector) = VectorDim } }

InvokeCreate(p) == InvokeOf(p, CreateInputs)

InitCreate == Init /\ ~tableExists

NextCreate ==
    \/ \E p \in Procs : InvokeCreate(p)
    \/ InitConnect
    \/ InitTableNames
    \/ InitCreateTable
    \/ InitDeleteSchema
    \/ \E p \in Procs : AwaitInit(p)
    \/ \E p \in Procs : ReadQuery(p)
    \/ \E p \in Procs : StoreAdd(p)

SpecCreate == InitCreate /\ [][NextCreate]_vars

(***************************************************************************)
(* Two batches at a time (two agent_end events), each with one entities    *)
(* candidate that the deduplicator merges into the same record.            *)
(***************************************************************************)
OverlapExtracted(p) == ExtractedOf(p, { << CandidateMemory("entities") >> })

\* The dedup arbitration answers merge, with the first similar record.
OverlapArbitrated(p) ==
    DedupReplied(p, { out \in LlmOutcomes :
                        /\ out.kind = "data"
                        /\ out.decision = JsString("merge")
                        /\ out.match_index = JsNumber(2) })

\* The merge arbitration answers with a merged text, or with null.
OverlapMerged(p) ==
    MergeReplied(p, { MergeReply("m", "m", "m"), [t |-> "null"] })

NextOverlap ==
    \/ \E p \in 1..2 : ExtractAndPersist(p)
    \/ \E p \in Procs : OverlapExtracted(p)
    \/ \E p \in Procs : BatchLoop(p)
    \/ \E p \in Procs : BatchCounted(p)
    \/ InitConnect
    \/ InitTableNames
    \/ InitOpenTable
    \/ InitSample
    \/ \E p \in Procs : AwaitInit(p)
    \/ \E p \in Procs : ReadQuery(p)
    \/ \E p \in Procs : MergeTargetFound(p)
    \/ \E p \in Procs : OverlapMerged(p)
    \/ \E p \in Procs : ProfileEmbedMerged(p)
    \/ \E p \in Procs : CandidateEmbedded(p)
    \/ \E p \in Procs : DedupSearch(p)
    \/ \E p \in Procs : OverlapArbitrated(p)
    \/ \E p \in Procs : Deduplicated(p)
    \/ \E p \in Procs : WriteAcquire(p)
    \/ \E p \in Procs : WriteQuery(p)
    \/ \E p \in Procs : WriteDelete(p)
    \/ \E p \in Procs : WriteAdd(p)
    \/ \E p \in Procs : WriteRestore(p)

SpecOverlap == InitBatch /\ [][NextOverlap]_vars

(***************************************************************************)
(* Two agent_end events of one session: the handler calls                  *)
(* extractWithCheckpoint for each, and nothing makes the second wait for   *)
(* the first.                                                              *)
(***************************************************************************)
\* The agent_end handler calls extractWithCheckpoint with the session key
\* of the event, whatever other batches are under way.
AgentEnd(p) ==
    /\ calls[p].pc = "idle"
    /\ \A q \in Procs : q < p => calls[q].pc # "idle"
    /\ calls' = [calls EXCEPT ![p] =
          [Idle EXCEPT !.batch = "extractWithCheckpoint", !.pc = "load",
                       !.session = sessionKey]]
    /\ UNCHANGED << dbVars, initVars, lockVars, now, uuidsDrawn, addFailures,
                    sent, everStored, diskVars >>

\* extractCandidates returns one events candidate.
EventExtracted(p) == ExtractedOf(p, { << CandidateMemory("events") >> })

NextEvents ==
    \/ \E p \in 1..2 : AgentEnd(p)
    \/ \E p \in Procs : Loaded(p)
    \/ \E p \in Procs : EventExtracted(p)
    \/ \E p \in Procs : Saved(p)
    \/ \E p \in Procs : BatchLoop(p)
    \/ \E p \in Procs : BatchCounted(p)
    \/ \E p \in Procs : Cleared(p)
    \/ InitConnect
    \/ InitTableNames
    \/ InitOpenTable
    \/ InitSample
    \/ \E p \in Procs : AwaitInit(p)
    \/ \E p \in Procs : CandidateEmbedded(p)
    \/ \E p \in Procs : DedupSearch(p)
    \/ \E p \in Procs : CheckpointArbitrated(p)
    \/ \E p \in Procs : Deduplicated(p)
    \/ \E p \in Procs : StoreAdd(p)

SpecEvents == InitCheckpoint /\ [][NextEvents]_vars

(***************************************************************************)
(* Properties.                                                             *)
(***************************************************************************)
Issued == { p \in Procs : calls[p].pc # "idle" }

RowsOf(i) == SelectSeq(rows, LAMBDA r : r.id = i)

\* The call has entered withWriteLock (its id passed assertUuid).
Entered(p) ==
    /\ IsWrite(calls[p])
    /\ calls[p].pc \notin {"idle", "awaitInit"}
    /\ calls[p].err \notin {"InvalidUUID", "InitDimensionMismatch"}

\* The call is inside fn: between its query and its last add.
InBody(p) ==
    /\ IsWrite(calls[p])
    /\ calls[p].pc \in {"query", "delete", "add", "restore"}

\* The calls that entered withWriteLock before p did.
RECURSIVE EnteredBefore(_)
EnteredBefore(p) ==
    IF calls[p].prev = 0 THEN {}
    ELSE {calls[p].prev} \cup EnteredBefore(calls[p].prev)

\* C1: when the calls issued are N >= 1 incrementActiveCount calls on the
\* same existing record and all have completed, the record is there once,
\* under the same id, with active_count grown by exactly N and every other
\* field but updated_at as before.
C1_IncrementsLossless ==
    ( /\ OldId \in everStored
      /\ Issued # {}
      /\ \A p \in Issued :
            /\ calls[p].op = "incrementActiveCount"
            /\ calls[p].id = OldId
            /\ calls[p].pc = "done"
            /\ calls[p].err = "" )
    => /\ Len(RowsOf(OldId)) = 1
       /\ LET r == RowsOf(OldId)[1]
          IN /\ r.active_count = Cardinality(Issued)
             /\ \A f \in FieldNames \ {"active_count", "updated_at", "vector"} :
                   r[f] = OldRow(VectorDim)[f]

\* Three increments of the same record, issued one behind the other in
\* the write queue, have all completed.
C1_Witness ==
    /\ OldId \in everStored
    /\ Issued = Procs
    /\ \A p \in Procs :
          /\ calls[p].op = "incrementActiveCount"
          /\ calls[p].id = OldId
          /\ calls[p].pc = "done"
          /\ calls[p].err = ""
          /\ calls[p].prev = p - 1
    /\ RowsOf(OldId)[1].active_count = NumCalls

\* C2: at most one update / incrementActiveCount body runs at a time,
\* whatever ids the calls target, and a body starts only when every call
\* that entered withWriteLock before it has finished its own.
C2_WritesSerializedFifo ==
    /\ \A p, q \in Procs : (p # q /\ InBody(p)) => ~InBody(q)
    /\ \A p \in Procs :
          (Entered(p) /\ calls[p].pc # "awaitLock")
          => \A q \in EnteredBefore(p) : calls[q].pc = "done"

\* One body is between its delete and its add while two calls on another
\* id wait behind it, in the order they entered.
C2_Witness ==
    \E p, q, r \in Procs :
        /\ calls[p].pc = "add" /\ IsWrite(calls[p])
        /\ calls[q].pc = "awaitLock" /\ calls[q].prev = p
        /\ calls[r].pc = "awaitLock" /\ calls[r].prev = q
        /\ calls[q].id # calls[p].id
        /\ calls[q].op # calls[r].op

\* The query of read p completes in this step.
ReadCompletes(p) ==
    /\ calls[p].op \in {"getById", "findByCategory"}
    /\ calls[p].pc = "query"
    /\ calls'[p].pc = "done"

\* C3: a getById of a stored record always finds exactly one row with its
\* id, also while update or incrementActiveCount is rewriting the record.
C3_ReadSeesExactlyOneRow ==
    [][ \A p \in Procs :
          ( /\ ReadCompletes(p)
            /\ calls[p].op = "getById"
            /\ calls[p].id \in everStored )
          => Len(calls'[p].result) = 1 ]_vars

\* Update p writes its rewritten row in this step.
UpdateWrites(p) ==
    /\ calls[p].op = "update"
    /\ calls[p].pc = "add"
    /\ calls'[p].pc = "done"

WrittenRow == rows'[Len(rows')]

\* C4 (as amended): update keeps id, created_at and source_session of the
\* record and applies every other field given, except updated_at, which
\* is set to the time of the update.
C4_UpdateKeepsImmutableFields ==
    [][ \A p \in Procs :
          UpdateWrites(p) =>
             /\ WrittenRow.id = calls[p].id
             /\ WrittenRow.created_at = calls[p].clean.created_at
             /\ WrittenRow.source_session = calls[p].clean.source_session
             /\ WrittenRow.updated_at >= calls[p].clean.updated_at
             /\ WrittenRow.updated_at > 0
             /\ \A f \in DOMAIN calls[p].fields \
                         {"id", "created_at", "source_session", "updated_at"} :
                   WrittenRow[f] = calls[p].fields[f]
             /\ \A f \in FieldNames \ (DOMAIN calls[p].fields \cup {"updated_at"}) :
                   WrittenRow[f] = calls[p].clean[f] ]_vars

\* C4 as stated: every field given other than id, created_at and
\* source_session is applied.
C4_UpdateAppliesEveryOtherField ==
    [][ \A p \in Procs :
          UpdateWrites(p) =>
             /\ WrittenRow.id = calls[p].id
             /\ WrittenRow.created_at = calls[p].clean.created_at
             /\ WrittenRow.source_session = calls[p].clean.source_session
             /\ \A f \in DOMAIN calls[p].fields \
                         {"id", "created_at", "source_session"} :
                   WrittenRow[f] = calls[p].fields[f] ]_vars

\* An update that was given other values for id, created_at and
\* source_session has completed and its other fields are in the record.
C4_Witness ==
    \E p \in Procs :
        /\ calls[p].op = "update"
        /\ calls[p].pc = "done"
        /\ calls[p].err = ""
        /\ "id" \in DOMAIN calls[p].fields
        /\ Len(RowsOf(calls[p].id)) = 1
        /\ RowsOf(calls[p].id)[1].abstract = calls[p].fields.abstract
        /\ RowsOf(calls[p].id)[1].source_session = "s0"

\* The restoring add of write p ends in this step.
RestoreEnds(p) ==
    /\ calls[p].pc = "restore"
    /\ calls'[p].pc = "done"

RowsOfNext(i) == SelectSeq(rows', LAMBDA r : r.id = i)

\* C5 (as amended): when the add of the rewritten row fails and the add
\* of the original row succeeds, the call fails with the first error and
\* the table holds the record once, with every field as before the call.
C5_RestoredWhenRestoreSucceeds ==
    [][ \A p \in Procs :
          (RestoreEnds(p) /\ calls'[p].err = "AddFailed")
          => RowsOfNext(calls[p].id) = << calls[p].clean >> ]_vars

\* C5 as stated: after a failed add of the rewritten row the table holds
\* the record as it was before the call.
C5_RestoredAfterFailedInsert ==
    [][ \A p \in Procs :
          RestoreEnds(p) => RowsOfNext(calls[p].id) = << calls[p].clean >> ]_vars

\* A write failed on its add and the record is in the table.
C5_Witness ==
    \E p \in Procs :
        /\ IsWrite(calls[p])
        /\ calls[p].pc = "done"
        /\ calls[p].err = "AddFailed"
        /\ Len(RowsOf(calls[p].id)) = 1

\* C6: store() with a vector whose length is not the configured dimension
\* never reaches table.add and fails with a dimension-mismatch error; no
\* row stored by store() has a vector of another length.
C6_StoreRejectsWrongDimension ==
    /\ \A p \in Procs :
          (calls[p].op = "store" /\ Len(calls[p].entry.vector) # VectorDim)
          => /\ calls[p].pc \in {"awaitInit", "done"}
             /\ "add" \notin calls[p].io
             /\ calls[p].pc = "done" =>
                   /\ calls[p].err \in {"DimensionMismatch",
                                        "InitDimensionMismatch"}
                   /\ calls[p].result = << >>
    /\ \A i \in 1..Len(rows) :
          rows[i].source_session = "s1" => Len(rows[i].vector) = VectorDim

\* A store() with a vector of another length has been rejected by the
\* check of store() itself, on an initialized instance.
C6_Witness ==
    \E p \in Procs :
        /\ calls[p].op = "store"
        /\ Len(calls[p].entry.vector) # VectorDim
        /\ calls[p].pc = "done"
        /\ calls[p].err = "DimensionMismatch"
        /\ initPc = "ok"

\* Call p is issued in this step.
IssuedNow(p) == calls[p].pc = "idle" /\ calls'[p].pc # "idle"

\* C7: once initialization has failed on a table of another dimension,
\* every operation issued later fails, and fails before it awaits a query
\* or a write of the table.
C7_InitFailureIsPermanent ==
    [][ \A p \in Procs :
          (initPc = "failed" /\ IssuedNow(p))
          => /\ calls'[p].pc = "done"
             /\ calls'[p].err # "" ]_vars

Malformed(c) ==
    \/ c.op \in {"getById", "update", "incrementActiveCount"} /\ ~UUID_RE(c.id)
    \/ c.op = "findByCategory" /\ c.category \notin MEMORY_CATEGORIES

\* C9: a call with a malformed id or an unknown category throws the
\* validation error, and has performed no storage I/O when it does.
C9_ValidationBeforeAnyIO ==
    \A p \in Procs :
        (Malformed(calls[p]) /\ calls[p].pc = "done")
        => /\ calls[p].err \in {"InvalidUUID", "InvalidCategory"}
           /\ calls[p].io = {}

\* C10: every predicate sent to the table holds an id that passes the
\* UUID check or one of the six categories, and a call with a malformed
\* id or an unknown category issues no query and no delete.
C10_OnlyValidatedPredicates ==
    /\ \A pred \in sent :
          \/ pred.col = "id" /\ UUID_RE(pred.val)
          \/ pred.col = "category" /\ pred.val \in MEMORY_CATEGORIES
    /\ \A p \in Procs :
          Malformed(calls[p]) => calls[p].io \cap {"query", "delete"} = {}

\* C11: store() with a category outside the six fails with an
\* invalid-category error and adds no row, so every row of the table has
\* one of the six categories.
C11_StoreRejectsUnknownCategory ==
    /\ \A p \in Procs :
          ( /\ calls[p].op = "store"
            /\ calls[p].entry.category \notin MEMORY_CATEGORIES
            /\ calls[p].pc = "done" )
          => /\ calls[p].err # ""
             /\ "add" \notin calls[p].io
    /\ \A i \in 1..Len(rows) : rows[i].category \in MEMORY_CATEGORIES

\* C12: the row an update writes has the category the record had.
C12_CategoryImmutable ==
    [][ \A p \in Procs :
          UpdateWrites(p) => WrittenRow.category = calls[p].clean.category ]_vars

\* A step of write p, whose id is well formed and was never stored.
AbsentWriteStep(p) ==
    /\ IsWrite(calls'[p])
    /\ calls'[p].pc # calls[p].pc
    /\ UUID_RE(calls'[p].id)
    /\ calls'[p].id \notin everStored'

\* C13: update and incrementActiveCount on a well-formed id that has no
\* record leave the rows of the table as they are at every step, send no
\* delete and no add, and complete without error.
C13_AbsentIdIsNoOp ==
    [][ \A p \in Procs :
          AbsentWriteStep(p)
          => /\ rows' = rows
             /\ calls'[p].io \cap {"delete", "add"} = {}
             /\ calls'[p].pc = "done" => calls'[p].err = "" ]_vars

\* An update and an increment of an id without a record have both
\* completed, after their query of the table.
C13_Witness ==
    \E p, q \in Procs :
        /\ calls[p].op = "update" /\ calls[q].op = "incrementActiveCount"
        /\ calls[p].id = NewId /\ calls[q].id = NewId
        /\ calls[p].pc = "done" /\ calls[q].pc = "done"
        /\ calls[p].err = "" /\ calls[q].err = ""
        /\ "query" \in calls[p].io /\ "query" \in calls[q].io
        /\ rows = << OldRow(VectorDim) >>

\* Search p has returned a list.
Searched(p) ==
    calls[p].op = "search" /\ calls[p].pc = "done" /\ calls[p].err = ""

\* The fetched candidates that are not in the list returned.
LeftOut(p) ==
    { k \in 1..Len(calls[p].results) :
        \A i \in 1..Len(calls[p].result) :
            calls[p].result[i].entry.id # calls[p].results[k].entry.id }

\* C14: the list search() returns is sorted by score, highest first; its
\* scores are all >= minScore; it has at most limit entries; with a
\* category filter all its entries are of that category; and a fetched
\* candidate is left out only when its score is below minScore, or when
\* the list is full and holds no entry of a lower score.
C14_SearchRanksAndFilters ==
    \A p \in Procs :
        Searched(p) =>
          LET res == calls[p].result
              a == calls[p].args
          IN /\ \A i, j \in 1..Len(res) : i < j => res[i].score >= res[j].score
             /\ \A i \in 1..Len(res) : res[i].score >= a.minScore
             /\ Len(res) <= a.limit
             /\ a.categoryFilter # ""
                   => \A i \in 1..Len(res) :
                         res[i].entry.category = a.categoryFilter
             /\ \A i \in 1..Len(res) :
                   \E k \in 1..Len(calls[p].results) : calls[p].results[k] = res[i]
             /\ \A k \in LeftOut(p) :
                   calls[p].results[k].score >= a.minScore
                   => /\ Len(res) = a.limit
                      /\ \A i \in 1..Len(res) :
                            res[i].score >= calls[p].results[k].score

\* A search with decay and a category filter has returned a full list
\* whose first entry is not the nearest record, and has left out a
\* candidate that reaches minScore.
C14_Witness ==
    \E p \in Procs :
        /\ Searched(p)
        /\ calls[p].args.categoryFilter = "events"
        /\ ~calls[p].args.skipDecay
        /\ Len(calls[p].result) = calls[p].args.limit
        /\ calls[p].result[1] # calls[p].results[1]
        /\ \E k \in LeftOut(p) :
              calls[p].results[k].score >= calls[p].args.minScore

\* Call p is a deduplicate whose search has returned.
DedupSearched(p) ==
    /\ calls[p].op = "deduplicate"
    /\ calls[p].pc \in {"llm", "done"}
    /\ calls[p].err = ""

\* deduplicate p has returned after a reply of the arbitration.
Arbitrated(p) ==
    /\ calls[p].op = "deduplicate"
    /\ calls[p].pc = "done"
    /\ calls[p].llmCalls > 0

\* C15: a deduplicate whose search found no hit has returned create,
\* with the reason that no similar memories were found, and has made no
\* call of the arbitration.
C15_NoHitsCreateWithoutArbitration ==
    \A p \in Procs :
        (DedupSearched(p) /\ Len(calls[p].similar) = 0)
        => /\ calls[p].pc = "done"
           /\ calls[p].result[1].decision = "create"
           /\ calls[p].result[1].reason = "No similar memories found"
           /\ calls[p].llmCalls = 0

\* A deduplicate of a category that has records in the table has found
\* no hit above the threshold and has returned.
C15_Witness ==
    \E p \in Procs :
        /\ DedupSearched(p)
        /\ calls[p].pc = "done"
        /\ calls[p].llmCalls = 0
        /\ \E i \in 1..Len(rows) : rows[i].category = calls[p].category

\* The spellings of create, merge and skip, in any case, among the
\* strings of the model.
KnownDecisions == {"create", "merge", "skip", "MERGE", "Skip"}

\* C16: when the arbitration throws, returns null, or returns a decision
\* that is not create, merge or skip in any case, deduplicate returns
\* create (never merge or skip) and does not throw.
C16_ArbitrationFailureCreates ==
    \A p \in Procs :
        ( /\ Arbitrated(p)
          /\ \/ calls[p].data.kind \in {"throws", "null"}
             \/ calls[p].data.decision.t # "string"
             \/ calls[p].data.decision.s \notin KnownDecisions )
        => /\ calls[p].err = ""
           /\ calls[p].result[1].decision = "create"

\* Deduplicates have returned create after a reply with an unknown
\* decision.
C16_Witness ==
    \E p \in Procs :
        /\ Arbitrated(p)
        /\ calls[p].data.kind = "data"
        /\ calls[p].data.decision = JsString("INVALID")
        /\ calls[p].result[1].decision = "create"
        /\ Len(calls[p].similar) = MAX_SIMILAR_FOR_PROMPT

\* The hits presented to the arbitration by deduplicate p.
Presented(p) ==
    SubSeq(calls[p].similar, 1,
           IF Len(calls[p].similar) < 3 THEN Len(calls[p].similar) ELSE 3)

\* deduplicate p has returned merge.
Merged(p) == Arbitrated(p) /\ calls[p].result[1].decision = "merge"

\* C17: the matchId of a merge is the id of the k-th hit presented when
\* match_index is a number k from 1 to the number of hits presented, and
\* the id of the first hit otherwise.
C17_MatchIndexResolution ==
    \A p \in Procs :
        Merged(p) =>
          LET idx == calls[p].data.match_index
              h == Len(Presented(p))
          IN IF idx.t = "number" /\ 2 <= idx.n2 /\ idx.n2 <= 2 * h
             THEN \E k \in 1..h :
                     /\ 2 * k = idx.n2
                     /\ calls[p].result[1].matchId = Presented(p)[k].entry.id
             ELSE calls[p].result[1].matchId = Presented(p)[1].entry.id

\* C18: a result of deduplicate has a matchId exactly when its decision
\* is merge, and the matchId of a merge is the id of a hit presented.
C18_MatchIdIffMerge ==
    \A p \in Procs :
        (calls[p].op = "deduplicate" /\ calls[p].pc = "done" /\ calls[p].err = "")
        => /\ calls[p].result[1].matchId # NoMatchId
                <=> calls[p].result[1].decision = "merge"
           /\ calls[p].result[1].decision = "merge"
                => \E k \in 1..Len(Presented(p)) :
                      calls[p].result[1].matchId = Presented(p)[k].entry.id


\* p is a processCandidate call of a profile candidate.
ProfileCandidate(p) ==
    /\ calls[p].caller = "processCandidate"
    /\ calls[p].candidate.category = "profile"

\* Its db.store has returned.
StoredNew(p) ==
    /\ ProfileCandidate(p)
    /\ calls[p].op = "store"
    /\ calls[p].pc = "done"
    /\ calls[p].err = ""

\* Its db.update has returned.
MergedIntoFirst(p) ==
    /\ ProfileCandidate(p)
    /\ calls[p].op = "update"
    /\ calls[p].pc = "done"
    /\ calls[p].err = ""

\* C19: a profile candidate is stored as a new profile record when
\* findByCategory found no profile record, and otherwise updates the first
\* record found, by that record's id; deduplicate is never called for it.
C19_ProfileStoredOrMergedIntoFirst ==
    \A p \in Procs :
        ProfileCandidate(p) =>
            LET c == calls[p]
            IN /\ c.dedupCalls = 0
               /\ c.op \in {"findByCategory", "store", "update"}
               /\ c.stage = "embedNew" => c.result = << >>
               /\ c.stage \in {"mergeMemory", "embedMerged"} =>
                     /\ Len(c.result) > 0
                     /\ c.target = c.result[1]
               /\ c.op = "store" =>
                     /\ c.target = << >>
                     /\ c.entry = StoreEntry(c.candidate, "profile",
                                             EmbedVector)
               /\ c.op = "update" =>
                     /\ c.target # << >>
                     /\ c.target.category = "profile"
                     /\ c.id = c.target.id
               /\ StoredNew(p) =>
                     /\ c.result[1].category = "profile"
                     /\ c.result[1].content = c.candidate.content
                     /\ c.result[1].id \in everStored

C19_Witness ==
    \E p, q \in Procs :
        /\ StoredNew(p)
        /\ MergedIntoFirst(q)
        /\ calls[q].id = calls[p].result[1].id


\* The records of category profile in the table.
ProfileRecords == { i \in 1..Len(rows) : rows[i].category = "profile" }

\* p has nothing left to run: it was not issued, it threw, or its last
\* store method has returned.
Settled(p) ==
    \/ calls[p].pc = "idle"
    \/ /\ calls[p].pc = "done"
       /\ \/ calls[p].err # ""
          \/ calls[p].caller = ""
          \/ calls[p].stage \in {"store", "update", "skipped"}

\* C20: when the processCandidate calls of overlapping extraction batches
\* and the incrementActiveCount calls of recall have all settled, the
\* table holds at most one record of category profile.
C20_AtMostOneProfile ==
    (\A p \in Procs : Settled(p)) => Cardinality(ProfileRecords) <= 1


\* The indices of the candidates the batch p called processCandidate on,
\* in the order of the calls.
AttemptsBy(p) ==
    LET own == SelectSeq(history,
                         LAMBDA e : e.kind = "attempt" /\ e.p = p)
    IN [k \in 1..Len(own) |-> own[k].i]

\* The number of candidates counted by counter so far.
CountedBy(c, counter) ==
    Cardinality({ k \in 1..Len(c.outcomes) : c.outcomes[k].counter = counter })

\* C21: in a batch of K candidates of extractAndPersist every candidate
\* is attempted once, in order, whether or not an earlier one threw; each
\* is counted once, as skipped when its processing threw; and the
\* statistics returned add up to K.
C21_ThrowingCandidateNeverAbortsBatch ==
    \A p \in Procs :
        calls[p].batch = "extractAndPersist" /\ calls[p].pc # "extractCandidates"
        => LET c == calls[p]
               K == Len(c.candidates)
               n == Len(c.outcomes)
           IN /\ n = c.i
              /\ AttemptsBy(p) \in
                    { [k \in 1..m |-> k - 1] : m \in {n, n + 1} }
              /\ \A counter \in {"created", "merged", "skipped"} :
                    c.stats[counter] = CountedBy(c, counter)
              /\ c.stats.created + c.stats.merged + c.stats.skipped = n
              /\ \A k \in 1..n :
                    c.outcomes[k].threw => c.outcomes[k].counter = "skipped"
              /\ c.pc = "returned" /\ c.err = "" =>
                    /\ n = K
                    /\ Len(AttemptsBy(p)) = K

C21_Witness ==
    \E p \in Procs :
        /\ calls[p].batch = "extractAndPersist"
        /\ calls[p].pc = "returned"
        /\ Len(calls[p].candidates) = MaxCandidates
        /\ calls[p].outcomes[1].threw
        /\ calls[p].outcomes[MaxCandidates].counter \in {"created", "merged"}
        /\ calls[p].stats.skipped = 1


\* p is a processCandidate call of a candidate of an append-only category.
AppendOnly(p) ==
    /\ calls[p].caller = "processCandidate"
    /\ calls[p].candidate.category \in {"events", "cases"}

\* rows is a prefix of rows': the records are as they were, in place.
RowsKept ==
    /\ Len(rows') >= Len(rows)
    /\ \A k \in 1..Len(rows) : rows'[k] = rows[k]

\* C22: while a candidate of category events or cases is processed,
\* whatever the dedup verdict, db.update is not called for it and every
\* record of the table stays as it was.
C22_AppendOnlyNeverModifies ==
    [][\A p \in Procs :
          AppendOnly(p)' =>
             /\ calls'[p].op \notin {"update", "incrementActiveCount", "getById"}
             /\ RowsKept]_vars

C22_Witness ==
    \E p \in Procs :
        /\ AppendOnly(p)
        /\ calls[p].verdict # << >>
        /\ calls[p].verdict.decision = "merge"
        /\ calls[p].verdict.matchId \in {NewId4, NewId3}
        /\ calls[p].stage = "store"
        /\ calls[p].pc = "done"
        /\ calls[p].err = ""
        /\ Len(rows) = Len(AppendOnlyRows) + 1


\* The step in which the batch counts candidate p has just processed.
CountedStep(p) ==
    /\ Returned(calls[p]) \/ Thrown(calls[p])
    /\ Len(calls'[p].outcomes) = Len(calls[p].outcomes) + 1

\* C23: a candidate of category events or cases for which the dedup
\* verdict is merge is counted as skipped, not as created or merged, and
\* db.update is not called for it.
C23_AppendOnlyMergeCountedSkipped ==
    [][\A p \in Procs :
          ( /\ AppendOnly(p)
            /\ Returned(calls[p])
            /\ calls[p].verdict # << >>
            /\ calls[p].verdict.decision = "merge"
            /\ CountedStep(p) )
          => /\ calls[p].op # "update"
             /\ calls'[p].stats =
                   [calls[p].stats EXCEPT !.skipped = @ + 1]]_vars


\* c has the reply of the merge arbitration, and it is null or lacks a
\* non-empty abstract or content.
Fallback(c) ==
    /\ c.caller = "processCandidate"
    /\ "t" \in DOMAIN c.data
    /\ \/ c.data.t = "null"
       \/ c.data.t = "data" /\ (c.data.abstract = "" \/ c.data.content = "")

\* The tiers of r are those of the candidate of c.
CandidateTiers(c, r) ==
    /\ r.abstract = c.candidate.abstract
    /\ r.overview = c.candidate.overview
    /\ r.content = c.candidate.content

\* C24: with a merge arbitration reply that is null or lacks a non-empty
\* abstract or content, the merge goes on: the target is updated with the
\* candidate's abstract, overview and content and the embedded vector,
\* and the candidate is counted as merged.
C24_MergeFallsBackToCandidate ==
    [][\A p \in Procs :
          LET c == calls'[p]
          IN Fallback(c) =>
               /\ ~Fallback(calls[p]) => c.err = "" /\ c.stage = "embedMerged"
               /\ c.stage = "embedMerged" => CandidateTiers(c, c.fields)
               /\ c.stage = "update" =>
                     /\ c.op = "update"
                     /\ c.id = c.target.id
                     /\ CandidateTiers(c, c.fields)
                     /\ c.fields.vector = EmbedVector
               /\ Returned(c) =>
                     \E k \in 1..Len(rows') :
                        /\ rows'[k].id = c.target.id
                        /\ CandidateTiers(c, rows'[k])
                        /\ rows'[k].vector = EmbedVector
               /\ Returned(calls[p]) /\ CountedStep(p) =>
                     calls'[p].stats =
                        [calls[p].stats EXCEPT !.merged = @ + 1]]_vars

C24_Witness ==
    \E p \in Procs :
        /\ Fallback(calls[p])
        /\ calls[p].data.t = "data"
        /\ calls[p].candidate.category = "entities"
        /\ Returned(calls[p])
        /\ calls[p].stage = "update"


\* completeJson threw in the merge arbitration of c.
ArbitrationThrew(c) ==
    /\ c.caller = "processCandidate"
    /\ "t" \in DOMAIN c.data
    /\ c.data.t = "throws"

\* C25: when the completion backend throws in the merge arbitration, the
\* merge completes with the candidate's tiers: the target is updated with
\* them and the candidate is counted as merged, not as skipped.
C25_MergeRecoversFromBackendFailure ==
    [][\A p \in Procs :
          ArbitrationThrew(calls[p]) /\ CountedStep(p) =>
             /\ calls'[p].stats = [calls[p].stats EXCEPT !.merged = @ + 1]
             /\ \E k \in 1..Len(rows) :
                   /\ rows[k].id = calls[p].target.id
                   /\ CandidateTiers(calls[p], rows[k])]_vars


\* The file fails the structural validation: it is not JSON, or what it
\* holds lacks a sessionKey, a stage, a candidates array or a numeric
\* processedIndex.
FailsValidation(file) ==
    \/ file.t \in {"torn", "null"}
    \/ /\ file.t = "object"
       /\ \/ file.sessionKey.t = "undefined"
          \/ file.stage.t = "undefined"
          \/ file.candidates.t # "array"
          \/ file.processedIndex.t # "number"

\* The file holds a checkpoint with every field, and candidates left.
ValidIncomplete(file) ==
    /\ file.t = "object"
    /\ ~FailsValidation(file)
    /\ file.sessionKey.s # ""
    /\ file.stage.s # ""
    /\ ProcessedIndex(file) < Len(CandidatesOf(file))

\* C30: a checkpoint file that fails the structural validation is treated
\* as absent: load returns null for it and findIncomplete leaves it out,
\* neither throws, and findIncomplete still returns the valid checkpoints
\* of the directory.
C30_InvalidCheckpointTreatedAsAbsent ==
    \A p \in Procs :
        /\ calls[p].op = "load" /\ calls[p].pc = "done"
           => /\ calls[p].err = ""
              /\ FailsValidation(files[calls[p].session])
                 => calls[p].result = << JsonNull >>
        /\ calls[p].op = "findIncomplete" /\ calls[p].pc = "done"
           => /\ calls[p].err = ""
              /\ \A k \in SessionKeys :
                    /\ FailsValidation(files[k])
                       => \A j \in DOMAIN calls[p].result :
                             calls[p].result[j] # files[k]
                    /\ ValidIncomplete(files[k])
                       => \E j \in DOMAIN calls[p].result :
                             calls[p].result[j] = files[k]

C30_Witness ==
    \E p, q \in Procs :
        /\ calls[p].op = "load" /\ calls[p].pc = "done"
        /\ files[calls[p].session].t = "object"
        /\ FailsValidation(files[calls[p].session])
        /\ calls[p].result = << JsonNull >>
        /\ calls[q].op = "findIncomplete" /\ calls[q].pc = "done"
        /\ Len(calls[q].result) = 1


\* The position in the history of the latest event of the kind, 0 when
\* there is none.
Latest(kind) ==
    LET S == { k \in DOMAIN history : history[k].kind = kind }
    IN IF S = {} THEN 0 ELSE CHOOSE k \in S : \A m \in S : m <= k

\* The indices of the candidates of the session that processCandidate was
\* called on after position n of the history, in the order of the calls.
AttemptsSince(session, n) ==
    LET later == SelectSeq([k \in DOMAIN history |->
                               [e |-> history[k], at |-> k]],
                           LAMBDA x : /\ x.at > n
                                      /\ x.e.kind = "attempt"
                                      /\ x.e.session = session)
    IN [k \in DOMAIN later |-> later[k].e.i]

\* p is a batch resumed from a checkpoint since the process started.
Resumed(p) ==
    /\ calls[p].batch \in Checkpointed
    /\ Latest("resumed") > Latest("crash")
    /\ history[Latest("resumed")].p = p
    /\ history[Latest("resumed")].session = calls[p].session

\* C26: a batch resumed from a checkpoint with cursor j calls
\* processCandidate on the candidates j+1, j+2, ... of the stored list, in
\* order and each once, on all of them up to the last by the time it
\* clears the checkpoint, on none of 0..j, and never calls
\* extractCandidates.
C26_ResumeProcessesRemainingOnly ==
    \A p \in Procs :
        Resumed(p)
        => LET c == calls[p]
               j == history[Latest("resumed")].i
               K == Len(c.candidates)
               done == AttemptsSince(c.session, Latest("resumed"))
           IN /\ Len(done) <= K - 1 - j \/ Len(done) = 0
              /\ \A k \in DOMAIN done : done[k] = j + k
              /\ c.pc = "clear" => Len(done) = K - 1 - j \/ j >= K
              /\ c.extractCalls = 0
              /\ c.candidates = CandidatesOf(c.checkpoint)
              /\ files[c.session].t = "object"
                 => c.candidates = CandidatesOf(files[c.session])
              /\ c.caller = "processCandidate"
                 => c.candidate = c.candidates[c.i + 1]

C26_Witness ==
    \E p \in Procs :
        /\ Resumed(p)
        /\ history[Latest("resumed")].i = 0
        /\ Len(calls[p].candidates) = 2
        /\ calls[p].pc = "clear"
        /\ AttemptsSince(calls[p].session, Latest("resumed")) = << 1 >>


\* The position in the history of the latest extraction of the session's
\* candidates, 0 when there is none.
ExtractedAt(session) ==
    LET S == { k \in DOMAIN history : /\ history[k].kind = "extracted"
                                       /\ history[k].session = session }
    IN IF S = {} THEN 0 ELSE CHOOSE k \in S : \A m \in S : m <= k

\* The candidates of the session counted after position n of the history.
CountedSince(session, n) ==
    { history[k].i : k \in { m \in DOMAIN history :
                                /\ m > n
                                /\ history[m].kind = "counted"
                                /\ history[m].session = session } }

\* Whatever cursor c a checkpoint on disk has, the candidates 0..c of its
\* batch have been counted and processCandidate has been called on none
\* after c + 1.
CursorSound ==
    \A k \in SessionKeys :
        files[k].t = "object"
        => LET c == ProcessedIndex(files[k])
               n == ExtractedAt(k)
               counted == CountedSince(k, n)
           IN /\ \A i \in 0..c : i \in counted
              /\ \A m \in DOMAIN history :
                    /\ m > n
                    /\ history[m].kind = "attempt"
                    /\ history[m].session = k
                    => history[m].i <= c + 1

\* C27: the cursor of a checkpoint on disk is -1 when the checkpoint is
\* created and goes up by one, the candidate list as it was, whenever the
\* file is rewritten; and whatever the cursor c on disk, candidates 0..c
\* have finished and none after c + 1 has started.
C27_CursorAdvancesByOne ==
    [][/\ CursorSound'
       /\ \A k \in SessionKeys :
             files'[k].t = "object" /\ files'[k] # files[k]
             => IF files[k].t = "object"
                THEN /\ ProcessedIndex(files'[k]) = ProcessedIndex(files[k]) + 1
                     /\ CandidatesOf(files'[k]) = CandidatesOf(files[k])
                     /\ files'[k].sessionKey = files[k].sessionKey
                ELSE ProcessedIndex(files'[k]) = -1]_vars

C27_Witness ==
    /\ files[sessionKey].t = "object"
    /\ Len(CandidatesOf(files[sessionKey])) = 2
    /\ ProcessedIndex(files[sessionKey]) = 1
    /\ Crashes = 1


\* C28: when a checkpointed batch has gone through its candidates and
\* clear has returned, no checkpoint of the session is on disk: load
\* finds none and findIncomplete does not report one.
C28_CheckpointDeletedOnCompletion ==
    [][\A p \in Procs :
          /\ calls[p].batch \in Checkpointed
          /\ calls[p].pc = "clear"
          /\ calls'[p].pc \in {"returned", "next"}
          => /\ load(files'[calls[p].session]) = JsonNull
             /\ ~Incomplete(files'[calls[p].session])]_vars


\* The crashes after position n of the history.
CrashesSince(n) ==
    Cardinality({ k \in DOMAIN history : k > n /\ history[k].kind = "crash" })

\* The number of processCandidate calls on candidate i in the list.
TimesIn(started, i) ==
    Cardinality({ k \in DOMAIN started : started[k] = i })

\* C29: when a batch that was interrupted by crashes has been resumed
\* from its checkpoint and has gone through its candidates, every
\* candidate of the batch has been processed at least once, and the calls
\* of processCandidate beyond one per candidate are at most one per
\* crash.
C29_CrashResumeAtLeastOnce ==
    \A p \in Procs :
        Resumed(p) /\ calls[p].pc = "clear"
        => LET c == calls[p]
               K == Len(c.candidates)
               n == ExtractedAt(c.session)
               started == AttemptsSince(c.session, n)
           IN /\ \A i \in 0..(K - 1) : TimesIn(started, i) >= 1
              /\ Len(started) - K <= CrashesSince(n)

C29_Witness ==
    \E p \in Procs :
        /\ Resumed(p)
        /\ calls[p].pc = "clear"
        /\ Len(calls[p].candidates) = 2
        /\ CrashesSince(ExtractedAt(calls[p].session)) = 1
        /\ AttemptsSince(calls[p].session, ExtractedAt(calls[p].session))
              = << 0, 1, 1 >>


\* The spans of the text that open with a brace, close with one and parse
\* as JSON.
ParsingSpans(text) ==
    { ab \in PositionsOf(text, "{") \X PositionsOf(text, "}") :
        ab[1] < ab[2] /\ IsJson(SubSeq(text, ab[1], ab[2])) }

\* The text is not JSON as a whole and has no code fence that parses.
NeitherWholeNorFence(text) ==
    /\ ~IsJson(text)
    /\ ~(fenceMatch(text).found /\ IsJson(fenceMatch(text).text))

\* C31: on a text that is not JSON as a whole and has no parseable code
\* fence, parseJsonFromResponse returns the value of the leftmost
\* brace-delimited span that parses as JSON, and null only when no such
\* span parses.
C31_FirstParsingBraceSpan ==
    \A p \in Procs :
        /\ calls[p].op = "completeJson"
        /\ calls[p].pc = "done"
        /\ calls[p].err = ""
        /\ NeitherWholeNorFence(calls[p].args.raw)
        => LET text == calls[p].args.raw
               spans == ParsingSpans(text)
           IN calls[p].result[1] =
                 IF spans = {} THEN JsonNull
                 ELSE LET a == Least({ ab[1] : ab \in spans })
                          ab == CHOOSE x \in spans : x[1] = a
                      IN JsonValue(SubSeq(text, ab[1], ab[2]))


\* The record has a category of the six, an abstract and a content.
WellFormed(r) ==
    /\ r.category \in MEMORY_CATEGORIES
    /\ r.abstract # ""
    /\ r.content # ""

\* C32: every record in the table after creations and merges of the
\* extraction pipeline has one of the six categories and a non-empty
\* abstract and content, every candidate the pipeline processes has them
\* too, and the fields a merge passes to update have a non-empty abstract
\* and content.
C32_StoredRecordsWellFormed ==
    /\ \A k \in 1..Len(rows) : WellFormed(rows[k])
    /\ \A p \in Procs :
          /\ \A k \in 1..Len(calls[p].candidates) :
                WellFormed(calls[p].candidates[k])
          /\ calls[p].op = "update" /\ calls[p].fields # << >> =>
                /\ calls[p].fields.abstract # ""
                /\ calls[p].fields.content # ""

\* A reply with an item that extractCandidates dropped and one it kept,
\* the kept one merged into a record on a reply of the merge arbitration
\* that lacks an abstract or a content.
C32_Witness ==
    \E p \in Procs :
        /\ calls[p].batch = "extractAndPersist"
        /\ calls[p].pc = "returned"
        /\ calls[p].stats.merged = 1
        /\ \E k \in DOMAIN history :
              history[k].kind = "reply" /\ history[k].i = 2
        /\ \E k \in DOMAIN history :
              history[k].kind = "extracted" /\ history[k].i = 1
        /\ \E k \in 1..Len(rows) :
              rows[k].id = OldId /\ rows[k].abstract = "c"


\* The incrementActiveCount calls on the record that have completed
\* without error.
Incremented(i) ==
    { p \in Procs : /\ calls[p].op = "incrementActiveCount"
                    /\ calls[p].id = i
                    /\ calls[p].pc = "done"
                    /\ calls[p].err = "" }

\* A record returned by store has active_count 0 and keeps it while no
\* incrementActiveCount is called on it.
StoredWithZero ==
    /\ \A p \in Procs :
          calls[p].op = "store" /\ calls[p].pc = "done" /\ calls[p].err = ""
          => calls[p].result[1].active_count = 0
    /\ \A k \in 1..Len(rows) : rows[k].id = NewId => rows[k].active_count = 0

\* C33 (as stated): a record is stored with active_count 0, and when
\* the incrementActiveCount calls and the merge updates issued on a record
\* have all ended, the record is in the table with an active_count equal
\* to the number of incrementActiveCount calls that completed.
C33_CountEqualsCompletedIncrements ==
    /\ StoredWithZero
    /\ (\A p \in Procs : calls[p].pc \in {"idle", "done"})
       => /\ Len(RowsOf(OldId)) = 1
          /\ RowsOf(OldId)[1].active_count = Cardinality(Incremented(OldId))

\* C33 (as amended): a record is stored with active_count 0, and at any
\* point of any interleaving of incrementActiveCount calls and merge
\* updates, the record, while it is in the table, is there once with an
\* active_count equal to the number of incrementActiveCount calls that
\* have completed without error.
C33_CountWhileInTable ==
    /\ StoredWithZero
    /\ Len(RowsOf(OldId)) <= 1
    /\ Len(RowsOf(OldId)) = 1
       => RowsOf(OldId)[1].active_count = Cardinality(Incremented(OldId))

\* An increment, then a merge update whose body ran between two
\* increments' bodies, then another increment: the count is 2 and the
\* record has the merged abstract.
C33_Witness ==
    /\ Cardinality(Incremented(OldId)) = 2
    /\ \E p \in Procs :
          /\ calls[p].op = "update"
          /\ calls[p].pc = "done"
          /\ calls[p].err = ""
          /\ \E q, r \in Incremented(OldId) :
                calls[p].prev = q /\ calls[r].prev = p
    /\ Len(RowsOf(OldId)) = 1
    /\ RowsOf(OldId)[1].active_count = 2
    /\ RowsOf(OldId)[1].abstract \in {"m", "c"}


\* C34: every update or incrementActiveCount that waits in the write
\* queue eventually runs its body and ends, whether the bodies before it
\* returned or threw on a failed insert or restore insert.
C34_QueueReleasedAfterFailure ==
    \A p \in Procs : (calls[p].pc = "awaitLock") ~> (calls[p].pc = "done")

\* Two calls were queued behind a call whose insert and restore insert
\* both failed, and both have run their bodies to the end.
C34_Witness ==
    \E p, q, r \in Procs :
        /\ calls[q].err = "RestoreFailed"
        /\ calls[p].prev = q
        /\ calls[p].pc = "done"
        /\ "query" \in calls[p].io
        /\ calls[r].prev = p
        /\ calls[r].pc = "done"
        /\ "query" \in calls[r].io


\* doInit is running.
InitRunning == initPc \notin {"none", "ok", "failed"}

\* This step starts doInit.
InitStarts == initPc # "connect" /\ initPc' = "connect"

\* C35: doInit is never started while it is running nor after it has
\* succeeded, and after a failed doInit the next operation issued starts
\* it again.
C35_InitOnceRetriedAfterFailure ==
    [][ /\ InitStarts => ~InitRunning /\ initPc # "ok"
        /\ initPc = "ok" => initPc' = "ok"
        /\ \A p \in Procs :
              (initPc = "failed" /\ IssuedNow(p))
              => initPc' = "connect" /\ initBy' = p ]_vars


\* The call is awaiting a query or a write of the table.
OnTable(c) == c.pc \in {"query", "add", "delete", "restore", "vectorSearch"}

\* The call is a read that has returned rows.
ReadReturned(c) ==
    /\ c.op \in {"getById", "findByCategory"}
    /\ c.pc = "done"
    /\ c.err = ""

\* C36: a call queries or writes the table only when doInit has
\* completed, and no read returns the placeholder row.
C36_NoTableUseBeforeInitCompleted ==
    \A p \in Procs :
        /\ OnTable(calls[p]) => initPc = "ok"
        /\ ReadReturned(calls[p]) =>
              \A k \in 1..Len(calls[p].result) :
                 calls[p].result[k].id # SchemaId


\* C37: when the update of a merge rewrites the target, the record it
\* replaces is the record the merge was computed from (the one getById
\* returned to handleMerge): no merge written in between is overwritten.
C37_MergeComputedFromCurrentRecord ==
    \A p \in Procs :
        /\ calls[p].caller = "processCandidate"
        /\ calls[p].stage = "update"
        /\ calls[p].pc = "delete"
        => calls[p].clean = rowToEntry(calls[p].target)


\* C38: when a batch counts a candidate as merged, the processCandidate
\* call it counts has written the record once: the add of its update (or
\* of its store of a first profile) has succeeded.  A merge that found no
\* target is not counted as merged.
C38_MergedMeansRecordWritten ==
    [][ \A p \in Procs :
          calls'[p].stats.merged = calls[p].stats.merged + 1
          => /\ "add" \in calls[p].io
             /\ calls[p].stage # "noTarget" ]_vars


\* The positions of the history where the event is of this kind and
\* session.
EventsOf(kind, session) ==
    { k \in DOMAIN history :
        history[k].kind = kind /\ history[k].session = session }

\* C39: of the runs that work on the candidates of one extraction of a
\* session, no two call processCandidate on the same candidate index.
C39_NoIndexProcessedByTwoRuns ==
    \A s \in SessionKeys :
        Cardinality(EventsOf("extracted", s)) <= 1
        => \A k1, k2 \in EventsOf("attempt", s) :
              history[k1].i = history[k2].i => k1 = k2


\* C40: an extractWithCheckpoint call that has gone past its load has
\* called extractCandidates on the conversation it was given.
C40_ConversationAlwaysExtracted ==
    \A p \in Procs :
        /\ calls[p].batch = "extractWithCheckpoint"
        /\ calls[p].pc \notin {"idle", "load"}
        => calls[p].extractCalls = 1

====
